---- MODULE Spec2Model ----
(***************************************************************************)
(* Model of the colour scheme generator of the Info Evry design system     *)
(* (tools/generate-colors.ts): hex / RGB / HSL conversion, the lighten and *)
(* darken transforms, generateColorScheme and the generateCSS serializer.  *)
(*                                                                         *)
(* Strings are TLA+ strings; a character is a string of length 1.          *)
(* JavaScript numbers are modelled by exact rationals <<n, d>> in lowest   *)
(* terms with d > 0.  IEEE-754 doubles round every intermediate result, so *)
(* where an exact value lies on a rounding tie of Math.round (k + 1/2) the *)
(* program may produce a channel that differs by one from the one computed *)
(* here.  Where the exact hue is a multiple of the modulus of % the double *)
(* hue may lie just below it, and the remainder is then just below the     *)
(* modulus instead of 0: hueRounding says which of the two the arithmetic  *)
(* of the run produces (see JsRemainder).                                  *)
(*                                                                         *)
(* A multi-line text (the style sheet, the JSON text) is the sequence of    *)
(* its lines.                                                              *)
(*                                                                         *)
(* The module also models the command-line entry point of the generator,   *)
(* the symbols utility (src/utils/symbols.ts, in its two versions: the map *)
(* built at module load and the map loaded and cached at first use) and    *)
(* replaceShortcodes of the sf-symbols integration.  A Map is a record of  *)
(* its identity (the number of the `new Map` that made it) and its         *)
(* entries, a function from keys to values.  The glyphs of sfsymbols.json  *)
(* are private-use characters; a glyph is written here as a stand-in       *)
(* string.                                                                 *)
(***************************************************************************)
EXTENDS Integers, Sequences, FiniteSets, TLC

VARIABLES
    phase,      \* "idle" | "returned" | "thrown" | "rendered" | "converted"
    seedArg,    \* the string handed to generateColorScheme
    result,     \* what generateColorScheme produced: [threw, error, scheme]
    css,        \* the lines generateCSS returned, <<>> before it ran
    rgbArg,     \* the RGB triple handed to rgbToHex
    hexOut,     \* the string rgbToHex returned
    json,       \* the lines generateJSON returned, <<>> before it ran
    hexArg,     \* the string handed to hexToRgb
    rgbOut,     \* the RGB record hslToRgb returned
    hueRounding,\* the double hsl.h at a multiple of the modulus: "exact" | "below"
    cli,        \* the command-line run: its arguments and what it left behind
    variant,    \* symbols utility: "static" (symbols.ts) | "lazy" (cached loader)
    symbolsFile,\* sfsymbols.json as the loader finds it: "valid" | "missing" | "corrupt"
    symbolsMap, \* the module variable symbolsMap, NoMap while it is null
    mapsBuilt,  \* how many Map objects the utility has constructed
    callLog,    \* the calls made to the utility, each with what it returned
    shortcode,  \* the last replaceShortcodes call: arguments, result, warnings
    colorCall,  \* a colour transform called on its own: arguments and result
    plugin,     \* the sf-symbols integration: SFS_PATTERN.lastIndex, its map, the
                \* built files and what the last operation did
    subset      \* the run of the font-subsetting tool and what it left behind

paletteVars == <<phase, seedArg, result, css, rgbArg, hexOut, json, hexArg, rgbOut>>

symbolVars == <<variant, symbolsFile, symbolsMap, mapsBuilt, callLog>>

\* The state of the tools beside the generator and the symbols.
toolVars == <<colorCall, plugin, subset>>

vars == <<paletteVars, hueRounding, cli, symbolVars, shortcode, toolVars>>

(***************************************************************************)
(* Bounds of the model.                                                    *)
(***************************************************************************)
MaxSeedLen == 7

\* The longest command line.
MaxArgs == 3

\* The longest sequence of calls to the symbols utility.
MaxCalls == 3

\* The most parts (shortcodes and pieces of text) a content is made of.
MaxParts == 3

\* The most operations of the sf-symbols integration in a run.
MaxOps == 2

\* The most HTML files in the output directory.
MaxFiles == 2

\* The most files of the project the font-subsetting tool scans.
MaxScanned == 2

(***************************************************************************)
(* Strings.                                                                *)
(***************************************************************************)
Char(s, i) == SubSeq(s, i, i)

startsWith(s, prefix) ==
    /\ Len(s) >= Len(prefix)
    /\ SubSeq(s, 1, Len(prefix)) = prefix

includes(s, part) ==
    \E i \in 1..(Len(s) - Len(part) + 1) : SubSeq(s, i, i + Len(part) - 1) = part

DecimalDigits == "0123456789"
LowerHexDigits == "0123456789abcdef"
UpperHexDigits == "0123456789ABCDEF"

\* The characters the class [a-f\d] matches under the i flag.
HexClass == { Char(LowerHexDigits, i) : i \in 1..16 } \cup { Char(UpperHexDigits, i) : i \in 1..16 }

\* parseInt of one hexadecimal digit.
HexDigitValue(c) ==
    (CHOOSE i \in 1..16 : Char(LowerHexDigits, i) = c \/ Char(UpperHexDigits, i) = c) - 1

\* parseInt(pair, 16) of a two-digit group.
parseInt16(pair) == 16 * HexDigitValue(Char(pair, 1)) + HexDigitValue(Char(pair, 2))

\* Number.prototype.toString(16) of a non-negative integer.
RECURSIVE toString16(_)
toString16(n) ==
    IF n < 16 THEN Char(LowerHexDigits, n + 1)
    ELSE toString16(n \div 16) \o Char(LowerHexDigits, (n % 16) + 1)

\* String(n) of a non-negative integer, as a template literal renders it.
RECURSIVE toString10(_)
toString10(n) ==
    IF n < 10 THEN Char(DecimalDigits, n + 1)
    ELSE toString10(n \div 10) \o Char(DecimalDigits, (n % 10) + 1)

\* String.prototype.padStart(width, "0").
RECURSIVE padStart0(_, _)
padStart0(s, width) == IF Len(s) >= width THEN s ELSE padStart0("0" \o s, width)

(***************************************************************************)
(* Numbers: exact rationals <<n, d>>, d > 0, in lowest terms.              *)
(***************************************************************************)
Abs(x) == IF x < 0 THEN -x ELSE x

RECURSIVE Gcd(_, _)
Gcd(a, b) == IF b = 0 THEN a ELSE Gcd(b, a % b)

Rat(n, d) ==
    LET g == Gcd(Abs(n), d) IN <<n \div g, d \div g>>

Num(k) == <<k, 1>>

RAdd(x, y) ==
    LET g == Gcd(x[2], y[2])
    IN Rat(x[1] * (y[2] \div g) + y[1] * (x[2] \div g), (x[2] \div g) * y[2])

RNeg(x) == <<-x[1], x[2]>>

RSub(x, y) == RAdd(x, RNeg(y))

RMul(x, y) ==
    LET g1 == Gcd(Abs(x[1]), y[2])
        g2 == Gcd(Abs(y[1]), x[2])
    IN Rat((x[1] \div g1) * (y[1] \div g2), (x[2] \div g2) * (y[2] \div g1))

\* x / y for y # 0.
RDiv(x, y) ==
    IF y[1] > 0 THEN RMul(x, <<y[2], y[1]>>) ELSE RMul(x, <<-y[2], -y[1]>>)

RLt(x, y) == x[1] * y[2] < y[1] * x[2]

RMin(x, y) == IF RLt(y, x) THEN y ELSE x

RMax(x, y) == IF RLt(x, y) THEN y ELSE x

\* x % m for x >= 0 and an integer m > 0.
RMod(x, m) == RSub(x, Num(m * (x[1] \div (x[2] * m))))

\* x % m for x of either sign: the remainder has the sign of x.
RRem(x, m) == IF x[1] < 0 THEN RNeg(RMod(RNeg(x), m)) ELSE RMod(x, m)

\* Math.round: the nearest integer, ties towards +Infinity.
MathRound(x) == (2 * x[1] + x[2]) \div (2 * x[2])

(***************************************************************************)
(* Colour conversions.                                                     *)
(***************************************************************************)
NoRgb == [r |-> 0, g |-> 0, b |-> 0]

\* Fault injection: the pattern of hexToRgb without its i flag.
HexColorGroupsCaseSensitive(hex) ==
    LET digits == IF startsWith(hex, "#") THEN SubSeq(hex, 2, Len(hex)) ELSE hex
    IN IF Len(digits) = 6
          /\ \A i \in 1..6 : Char(digits, i) \in { Char(LowerHexDigits, k) : k \in 1..16 }
       THEN <<SubSeq(digits, 1, 2), SubSeq(digits, 3, 4), SubSeq(digits, 5, 6)>>
       ELSE <<>>

\* /^#?([a-f\d]{2})([a-f\d]{2})([a-f\d]{2})$/i.exec(hex): the three groups,
\* or <<>> when the string does not match.
HexColorGroups(hex) ==
    LET digits == IF startsWith(hex, "#") THEN SubSeq(hex, 2, Len(hex)) ELSE hex
    IN IF Len(digits) = 6 /\ \A i \in 1..6 : Char(digits, i) \in HexClass
       THEN <<SubSeq(digits, 1, 2), SubSeq(digits, 3, 4), SubSeq(digits, 5, 6)>>
       ELSE <<>>

\* hexToRgb: [threw, error, rgb]; threw models the thrown Error and error its
\* message.
hexToRgb(hex) ==
    LET groups == HexColorGroups(hex)
    IN IF groups = <<>>
       THEN [threw |-> TRUE, error |-> "Invalid hex color: " \o hex, rgb |-> NoRgb]
       ELSE [threw |-> FALSE, error |-> "",
             rgb |-> [r |-> parseInt16(groups[1]),
                      g |-> parseInt16(groups[2]),
                      b |-> parseInt16(groups[3])]]

\* Fault injection: toHex without padStart.
toHexUnpadded(n) == toString16(MathRound(RMax(Num(0), RMin(Num(255), n))))

\* toHex of rgbToHex, for a channel given as a number.
toHex(n) == padStart0(toString16(MathRound(RMax(Num(0), RMin(Num(255), n)))), 2)

\* rgbToHex for channels given as numbers.
rgbToHexNum(r, g, b) == "#" \o toHex(r) \o toHex(g) \o toHex(b)

rgbToHexBlueFirst(rgb) == rgbToHexNum(Num(rgb.b), Num(rgb.g), Num(rgb.r))

\* rgbToHex for an RGB record of integers.
rgbToHex(rgb) == rgbToHexNum(Num(rgb.r), Num(rgb.g), Num(rgb.b))

\* Fault injection: the red branch without the turn added when g < b.
rgbToHslWithoutTurn(rgb) ==
    LET r == Rat(rgb.r, 255)
        g == Rat(rgb.g, 255)
        b == Rat(rgb.b, 255)
        max == RMax(RMax(r, g), b)
        min == RMin(RMin(r, g), b)
        l == RDiv(RAdd(max, min), Num(2))
        d == RSub(max, min)
        s == IF RLt(Rat(1, 2), l)
             THEN RDiv(d, RSub(RSub(Num(2), max), min))
             ELSE RDiv(d, RAdd(max, min))
        h == IF max = r
             THEN RDiv(RDiv(RSub(g, b), d), Num(6))
             ELSE IF max = g
             THEN RDiv(RAdd(RDiv(RSub(b, r), d), Num(2)), Num(6))
             ELSE RDiv(RAdd(RDiv(RSub(r, g), d), Num(4)), Num(6))
    IN IF max = min
       THEN [h |-> Num(0), s |-> Num(0), l |-> l]
       ELSE [h |-> RMul(h, Num(360)), s |-> s, l |-> l]

rgbToHsl(rgb) ==
    LET r == Rat(rgb.r, 255)
        g == Rat(rgb.g, 255)
        b == Rat(rgb.b, 255)
        max == RMax(RMax(r, g), b)
        min == RMin(RMin(r, g), b)
        l == RDiv(RAdd(max, min), Num(2))
        d == RSub(max, min)
        s == IF RLt(Rat(1, 2), l)
             THEN RDiv(d, RSub(RSub(Num(2), max), min))
             ELSE RDiv(d, RAdd(max, min))
        h == IF max = r
             THEN RDiv(RAdd(RDiv(RSub(g, b), d), IF RLt(g, b) THEN Num(6) ELSE Num(0)), Num(6))
             ELSE IF max = g
             THEN RDiv(RAdd(RDiv(RSub(b, r), d), Num(2)), Num(6))
             ELSE RDiv(RAdd(RDiv(RSub(r, g), d), Num(4)), Num(6))
    IN IF max = min
       THEN [h |-> Num(0), s |-> Num(0), l |-> l]
       ELSE [h |-> RMul(h, Num(360)), s |-> s, l |-> l]

hue2rgbWithoutWrap(p, q, t0) ==
    LET t == IF RLt(Num(1), t0) THEN RSub(t0, Num(1)) ELSE t0
    IN IF RLt(t, Rat(1, 6)) THEN RAdd(p, RMul(RMul(RSub(q, p), Num(6)), t))
       ELSE IF RLt(t, Rat(1, 2)) THEN q
       ELSE IF RLt(t, Rat(2, 3))
       THEN RAdd(p, RMul(RMul(RSub(q, p), RSub(Rat(2, 3), t)), Num(6)))
       ELSE p

hue2rgb(p, q, t0) ==
    LET t1 == IF RLt(t0, Num(0)) THEN RAdd(t0, Num(1)) ELSE t0
        t == IF RLt(Num(1), t1) THEN RSub(t1, Num(1)) ELSE t1
    IN IF RLt(t, Rat(1, 6)) THEN RAdd(p, RMul(RMul(RSub(q, p), Num(6)), t))
       ELSE IF RLt(t, Rat(1, 2)) THEN q
       ELSE IF RLt(t, Rat(2, 3))
       THEN RAdd(p, RMul(RMul(RSub(q, p), RSub(Rat(2, 3), t)), Num(6)))
       ELSE p

hslToRgb(hsl) ==
    LET hNorm == RDiv(hsl.h, Num(360))
        val == MathRound(RMul(hsl.l, Num(255)))
        q == IF RLt(hsl.l, Rat(1, 2))
             THEN RMul(hsl.l, RAdd(Num(1), hsl.s))
             ELSE RSub(RAdd(hsl.l, hsl.s), RMul(hsl.l, hsl.s))
        p == RSub(RMul(Num(2), hsl.l), q)
    IN IF hsl.s = Num(0)
       THEN [r |-> val, g |-> val, b |-> val]
       ELSE [r |-> MathRound(RMul(hue2rgb(p, q, RAdd(hNorm, Rat(1, 3))), Num(255))),
             g |-> MathRound(RMul(hue2rgb(p, q, hNorm), Num(255))),
             b |-> MathRound(RMul(hue2rgb(p, q, RSub(hNorm, Rat(1, 3))), Num(255)))]

(***************************************************************************)
(* Colour transforms.  A function that calls hexToRgb returns               *)
(* [threw, error, value]: the Error hexToRgb threw, or its value.          *)
(***************************************************************************)
Threw(call) == [threw |-> TRUE, error |-> call.error, value |-> ""]

Returned(v) == [threw |-> FALSE, error |-> "", value |-> v]

\* Fault injection: lighten scaling the lightness by (1 + percent) instead of
\* adding percent to it.
lightenByFactor(hex, percent) ==
    LET parsed == hexToRgb(hex)
        hsl == rgbToHsl(parsed.rgb)
        l == RMin(Num(1), RMul(hsl.l, RAdd(Num(1), percent)))
    IN IF parsed.threw THEN Threw(parsed)
       ELSE Returned(rgbToHex(hslToRgb([hsl EXCEPT !.l = l])))

lighten(hex, percent) ==
    LET parsed == hexToRgb(hex)
        hsl == rgbToHsl(parsed.rgb)
        l == RMin(Num(1), RAdd(hsl.l, percent))
    IN IF parsed.threw THEN Threw(parsed)
       ELSE Returned(rgbToHex(hslToRgb([hsl EXCEPT !.l = l])))

\* Fault injection: darken subtracting the lightness from percent.
darkenOperandsSwapped(hex, percent) ==
    LET parsed == hexToRgb(hex)
        hsl == rgbToHsl(parsed.rgb)
        l == RMax(Num(0), RSub(percent, hsl.l))
    IN IF parsed.threw THEN Threw(parsed)
       ELSE Returned(rgbToHex(hslToRgb([hsl EXCEPT !.l = l])))

darken(hex, percent) ==
    LET parsed == hexToRgb(hex)
        hsl == rgbToHsl(parsed.rgb)
        l == RMax(Num(0), RSub(hsl.l, percent))
    IN IF parsed.threw THEN Threw(parsed)
       ELSE Returned(rgbToHex(hslToRgb([hsl EXCEPT !.l = l])))

\* The HSL shiftHue hands to hslToRgb.
shiftHueHsl(hsl, degrees) ==
    [hsl EXCEPT !.h = RRem(RAdd(RAdd(hsl.h, degrees), Num(360)), 360)]

shiftHue(hex, degrees) ==
    LET parsed == hexToRgb(hex)
    IN IF parsed.threw THEN Threw(parsed)
       ELSE Returned(rgbToHex(hslToRgb(shiftHueHsl(rgbToHsl(parsed.rgb), degrees))))

\* hexToRgba; alpha is the text a template literal renders the number as.
hexToRgba(hex, alpha) ==
    LET parsed == hexToRgb(hex)
        rgb == parsed.rgb
    IN IF parsed.threw THEN Threw(parsed)
       ELSE Returned("rgba(" \o toString10(rgb.r) \o ", " \o toString10(rgb.g) \o ", "
                     \o toString10(rgb.b) \o ", " \o alpha \o ")")

(***************************************************************************)
(* generateColorScheme.                                                    *)
(***************************************************************************)
NoScheme ==
    [primary |-> "", primaryLight |-> "", primaryDark |-> "", primaryGlow |-> "",
     cyan |-> "", indigo |-> "", gradientPrimary |-> "", gradientBlue |-> "",
     gradientBlueIntense |-> "", gradientAccent |-> "", glowPrimary |-> "",
     glowBlue |-> "", glowCyan |-> "", themeColor |-> ""]

\* The first call, in evaluation order, that threw; 0 when none did.
FirstThrow(calls) ==
    IF \E i \in 1..Len(calls) : calls[i].threw
    THEN CHOOSE i \in 1..Len(calls) :
            calls[i].threw /\ \A j \in 1..(i - 1) : ~calls[j].threw
    ELSE 0

\* Fault injection: the object literal with themeColor taken from primaryDark.
ColorSchemeRecordDarkTheme(primary, primaryLight, primaryDark, primaryGlow, cyan, indigo, intenseDark, glowPrimary, glowBlue, glowCyan) ==
    [primary |-> primary,
     primaryLight |-> primaryLight,
     primaryDark |-> primaryDark,
     primaryGlow |-> primaryGlow,
     cyan |-> cyan,
     indigo |-> indigo,
     gradientPrimary |-> "linear-gradient(135deg, " \o primaryDark \o " 0%, "
                         \o primary \o " 50%, " \o cyan \o " 100%)",
     gradientBlue |-> "linear-gradient(135deg, " \o primary \o " 0%, " \o cyan \o " 100%)",
     gradientBlueIntense |-> "linear-gradient(135deg, " \o intenseDark \o " 0%, "
                             \o primary \o " 50%, " \o primaryLight \o " 100%)",
     gradientAccent |-> "linear-gradient(135deg, " \o primary \o " 0%, " \o indigo \o " 100%)",
     glowPrimary |-> "0 0 80px " \o glowPrimary,
     glowBlue |-> "0 0 80px " \o glowBlue,
     glowCyan |-> "0 0 80px " \o glowCyan,
     themeColor |-> primaryDark]

\* Fault injection: gradientBlueIntense starting at primaryDark instead of
\* the colour darkened for it.
ColorSchemeRecordIntenseFromDark(primary, primaryLight, primaryDark, primaryGlow, cyan, indigo, intenseDark, glowPrimary, glowBlue, glowCyan) ==
    [primary |-> primary,
     primaryLight |-> primaryLight,
     primaryDark |-> primaryDark,
     primaryGlow |-> primaryGlow,
     cyan |-> cyan,
     indigo |-> indigo,
     gradientPrimary |-> "linear-gradient(135deg, " \o primaryDark \o " 0%, "
                         \o primary \o " 50%, " \o cyan \o " 100%)",
     gradientBlue |-> "linear-gradient(135deg, " \o primary \o " 0%, " \o cyan \o " 100%)",
     gradientBlueIntense |-> "linear-gradient(135deg, " \o primaryDark \o " 0%, "
                             \o primary \o " 50%, " \o primaryLight \o " 100%)",
     gradientAccent |-> "linear-gradient(135deg, " \o primary \o " 0%, " \o indigo \o " 100%)",
     glowPrimary |-> "0 0 80px " \o glowPrimary,
     glowBlue |-> "0 0 80px " \o glowBlue,
     glowCyan |-> "0 0 80px " \o glowCyan,
     themeColor |-> primary]

\* The object literal generateColorScheme returns, from the strings computed
\* for it.
ColorSchemeRecord(primary, primaryLight, primaryDark, primaryGlow, cyan, indigo, intenseDark, glowPrimary, glowBlue, glowCyan) ==
    [primary |-> primary,
     primaryLight |-> primaryLight,
     primaryDark |-> primaryDark,
     primaryGlow |-> primaryGlow,
     cyan |-> cyan,
     indigo |-> indigo,
     gradientPrimary |-> "linear-gradient(135deg, " \o primaryDark \o " 0%, "
                         \o primary \o " 50%, " \o cyan \o " 100%)",
     gradientBlue |-> "linear-gradient(135deg, " \o primary \o " 0%, " \o cyan \o " 100%)",
     gradientBlueIntense |-> "linear-gradient(135deg, " \o intenseDark \o " 0%, "
                             \o primary \o " 50%, " \o primaryLight \o " 100%)",
     gradientAccent |-> "linear-gradient(135deg, " \o primary \o " 0%, " \o indigo \o " 100%)",
     glowPrimary |-> "0 0 80px " \o glowPrimary,
     glowBlue |-> "0 0 80px " \o glowBlue,
     glowCyan |-> "0 0 80px " \o glowCyan,
     themeColor |-> primary]

\* Fault injection: the outcome with the Error wrapped in a new message and a
\* fallback record, the one of the default colour, beside it.
SchemeOutcomeWrapped(calls, primary, cyan, indigo) ==
    IF FirstThrow(calls) # 0
    THEN [threw |-> TRUE,
          error |-> "Could not generate the scheme: " \o calls[FirstThrow(calls)].error,
          scheme |-> [NoScheme EXCEPT !.primary = "#0ea5e9", !.themeColor = "#0ea5e9"]]
    ELSE [threw |-> FALSE, error |-> "",
          scheme |-> ColorSchemeRecord(primary, calls[2].value, calls[3].value,
                                       calls[5].value, cyan, indigo, calls[6].value,
                                       calls[7].value, calls[8].value, calls[9].value)]

\* The outcome of generateColorScheme from the calls it made, in evaluation
\* order: 1 hexToRgb (validation), 2 lighten, 3 darken, 4 hexToRgb, 5 hexToRgba
\* (primaryGlow), 6 darken (gradientBlueIntense), 7-9 hexToRgba (the glows).
\* The first call that threw ends the function with its Error.
SchemeOutcome(calls, primary, cyan, indigo) ==
    IF FirstThrow(calls) # 0
    THEN [threw |-> TRUE, error |-> calls[FirstThrow(calls)].error, scheme |-> NoScheme]
    ELSE [threw |-> FALSE, error |-> "",
          scheme |-> ColorSchemeRecord(primary, calls[2].value, calls[3].value,
                                       calls[5].value, cyan, indigo, calls[6].value,
                                       calls[7].value, calls[8].value, calls[9].value)]

\* hsl.h % m in doubles.  The double hsl.h is the exact hue rounded; hues that
\* are multiples of 60 (and 0) come out exact, every other hue that is a
\* multiple of m comes out exact or a few units in the last place off.
\* Below the multiple, the remainder is m less those units, and the sum
\* 180 + remainder (240 + remainder) rounds to 180 + m (240 + m) or to the
\* double next to it: the remainder is then written m.
JsRemainder(h, m) ==
    IF hueRounding = "below" /\ h # Num(0) /\ RMod(h, m) = Num(0) /\ RMod(h, 60) # Num(0)
    THEN Num(m)
    ELSE RMod(h, m)

\* cyanHsl and cyan of generateColorScheme.
CyanOf(hsl) ==
    rgbToHex(hslToRgb([h |-> RAdd(Num(180), JsRemainder(hsl.h, 30)),
                       s |-> RMin(Num(1), RMul(hsl.s, Rat(11, 10))),
                       l |-> RMin(Rat(85, 100), RAdd(hsl.l, Rat(1, 10)))]))

\* indigoHsl and indigo of generateColorScheme.
IndigoOf(hsl) ==
    rgbToHex(hslToRgb([h |-> RAdd(Num(240), JsRemainder(hsl.h, 20)),
                       s |-> RMin(Num(1), RMul(hsl.s, Rat(9, 10))),
                       l |-> RMul(hsl.l, Rat(95, 100))]))

\* Fault injection: glowCyan computed from primary instead of cyan.
SchemeWithAccentsGlowOfPrimary(calls, primary, cyan, indigo) ==
    SchemeOutcome(calls \o <<hexToRgba(primary, "0.4"),
                             darken(primary, Rat(15, 100)),
                             hexToRgba(primary, "0.4"),
                             hexToRgba(primary, "0.35"),
                             hexToRgba(primary, "0.3")>>,
                  primary, cyan, indigo)

\* The returned object: the calls its initializers make, after those made so
\* far.
SchemeWithAccents(calls, primary, cyan, indigo) ==
    SchemeOutcome(calls \o <<hexToRgba(primary, "0.4"),
                             darken(primary, Rat(15, 100)),
                             hexToRgba(primary, "0.4"),
                             hexToRgba(primary, "0.35"),
                             hexToRgba(cyan, "0.3")>>,
                  primary, cyan, indigo)

\* The accents, derived from the HSL of the fourth call's RGB.
SchemeWithHsl(calls, primary, hsl) ==
    SchemeWithAccents(calls, primary, CyanOf(hsl), IndigoOf(hsl))

\* generateColorScheme once primary is canonical: validation, the variants and
\* the parse of primary.
SchemeOfPrimary(primary) ==
    LET calls == <<hexToRgb(primary),
                   lighten(primary, Rat(15, 100)),
                   darken(primary, Rat(12, 100)),
                   hexToRgb(primary)>>
    IN SchemeWithHsl(calls, primary, rgbToHsl(calls[4].rgb))

\* Fault injection: generateColorScheme using the seed as given.
generateColorSchemeAsGiven(primaryHex) == SchemeOfPrimary(primaryHex)

generateColorScheme(primaryHex) ==
    SchemeOfPrimary(IF startsWith(primaryHex, "#") THEN primaryHex ELSE "#" \o primaryHex)

(***************************************************************************)
(* generateCSS: the template literal, one element per line of the text     *)
(* (the text is these lines joined by line feeds, with a final line feed), *)
(* written section by section.                                             *)
(***************************************************************************)
\* Lines 273-278 of the source: the header comment and the opening of the :root block.
CssHeader(scheme) ==
    <<"/* ===========================================",
      "   Color Tokens - Info Evry Design System",
      "   Generated from primary color: " \o scheme.primary,
      "   =========================================== */",
      "",
      ":root {">>

\* Lines 279-291 of the source: the constant background and text colours.
CssBackgroundAndText ==
    <<"  /* Background Colors */",
      "  --color-bg: #000000;",
      "  --color-bg-subtle: #050505;",
      "  --color-surface: #111111;",
      "  --color-surface-elevated: #1a1a1a;",
      "  --color-surface-hover: #242424;",
      "  --color-surface-form: #0d0d0d;",
      "",
      "  /* Text Colors */",
      "  --color-text: #ffffff;",
      "  --color-text-secondary: #a1a1a1;",
      "  --color-text-muted: #666666;",
      "">>

\* Fault injection: --color-primary rendered from primaryLight.
CssPrimaryFromLight(scheme) ==
    <<"  /* Primary Color */",
      "  --color-primary: " \o scheme.primaryLight \o ";",
      "  --color-primary-light: " \o scheme.primaryLight \o ";",
      "  --color-primary-dark: " \o scheme.primaryDark \o ";",
      "  --color-primary-glow: " \o scheme.primaryGlow \o ";",
      "">>

\* Lines 292-297 of the source: the primary colour and its variants.
CssPrimary(scheme) ==
    <<"  /* Primary Color */",
      "  --color-primary: " \o scheme.primary \o ";",
      "  --color-primary-light: " \o scheme.primaryLight \o ";",
      "  --color-primary-dark: " \o scheme.primaryDark \o ";",
      "  --color-primary-glow: " \o scheme.primaryGlow \o ";",
      "">>

\* Lines 298-303 of the source: the accent colours.
CssAccents(scheme) ==
    <<"  /* Accent Colors */",
      "  --color-cyan: " \o scheme.cyan \o ";",
      "  --color-indigo: " \o scheme.indigo \o ";",
      "  --color-green: #10b981;",
      "  --color-orange: #f59e0b;",
      "">>

\* Lines 304-311 of the source: the constant semantic colours.
CssSemantic ==
    <<"  /* Semantic Colors */",
      "  --color-success: #10b981;",
      "  --color-success-light: rgba(16, 185, 129, 0.15);",
      "  --color-warning: #f59e0b;",
      "  --color-warning-light: rgba(245, 158, 11, 0.15);",
      "  --color-error: #ef4444;",
      "  --color-error-light: rgba(239, 68, 68, 0.15);",
      "">>

\* Lines 312-318 of the source: the gradients.
CssGradientsBlueTwice(scheme) ==
    <<"  /* Gradients */",
      "  --gradient-primary: " \o scheme.gradientPrimary \o ";",
      "  --gradient-blue: " \o scheme.gradientBlue \o ";",
      "  --gradient-blue-intense: " \o scheme.gradientBlue \o ";",
      "  --gradient-accent: " \o scheme.gradientAccent \o ";",
      "  --gradient-radial: radial-gradient(ellipse at center, var(--color-surface) 0%, var(--color-bg) 100%);",
      "">>

CssGradients(scheme) ==
    <<"  /* Gradients */",
      "  --gradient-primary: " \o scheme.gradientPrimary \o ";",
      "  --gradient-blue: " \o scheme.gradientBlue \o ";",
      "  --gradient-blue-intense: " \o scheme.gradientBlueIntense \o ";",
      "  --gradient-accent: " \o scheme.gradientAccent \o ";",
      "  --gradient-radial: radial-gradient(ellipse at center, var(--color-surface) 0%, var(--color-bg) 100%);",
      "">>

\* Fault injection: the glow effects without --glow-cyan.
CssGlowsWithoutCyan(scheme) ==
    <<"  /* Glow Effects */",
      "  --glow-primary: " \o scheme.glowPrimary \o ";",
      "  --glow-blue: " \o scheme.glowBlue \o ";",
      "">>

\* Lines 319-323 of the source: the glow effects.
CssGlows(scheme) ==
    <<"  /* Glow Effects */",
      "  --glow-primary: " \o scheme.glowPrimary \o ";",
      "  --glow-blue: " \o scheme.glowBlue \o ";",
      "  --glow-cyan: " \o scheme.glowCyan \o ";",
      "">>

\* Lines 324-328 of the source: the constant borders and the end of the block.
CssBorders ==
    <<"  /* Borders */",
      "  --border-subtle: rgba(255, 255, 255, 0.08);",
      "  --border-default: rgba(255, 255, 255, 0.15);",
      "  --border-hover: rgba(255, 255, 255, 0.25);",
      "}">>

generateCSS(scheme) ==
    CssHeader(scheme) \o CssBackgroundAndText \o CssPrimary(scheme) \o CssAccents(scheme)
    \o CssSemantic \o CssGradients(scheme) \o CssGlows(scheme) \o CssBorders

(***************************************************************************)
(* generateJSON: JSON.stringify(object, null, 2) of six fields of the      *)
(* record, and JSON.parse of such a text.                                  *)
(***************************************************************************)
\* An object or a Map built from [key, value] pairs: a later pair with the
\* same key replaces the earlier one.
FromEntries(entries) ==
    [k \in { entries[i][1] : i \in 1..Len(entries) } |->
        LET last == CHOOSE i \in 1..Len(entries) :
                        /\ entries[i][1] = k
                        /\ \A j \in (i + 1)..Len(entries) : entries[j][1] # k
        IN  entries[last][2]]

\* The characters of a string as JSON writes them between quotes: the
\* quote and the backslash are escaped.
RECURSIVE JsonEscape(_)
JsonEscape(s) ==
    IF s = "" THEN ""
    ELSE LET c == Char(s, 1)
         IN  (IF c = "\"" \/ c = "\\" THEN "\\" \o c ELSE c) \o JsonEscape(SubSeq(s, 2, Len(s)))

JsonQuote(s) == "\"" \o JsonEscape(s) \o "\""

\* JSON.stringify(object, null, 2) of an object whose members, in insertion
\* order, are the pairs and whose values are strings.
JsonStringify(members) ==
    IF members = <<>> THEN <<"{}">>
    ELSE <<"{">>
         \o [i \in 1..Len(members) |->
                "  " \o JsonQuote(members[i][1]) \o ": " \o JsonQuote(members[i][2])
                \o (IF i < Len(members) THEN "," ELSE "")]
         \o <<"}">>

generateJSONWithGlow(scheme) ==
    JsonStringify(<<<<"primary", scheme.primary>>,
                    <<"primaryLight", scheme.primaryLight>>,
                    <<"primaryDark", scheme.primaryDark>>,
                    <<"primaryGlow", scheme.primaryGlow>>,
                    <<"cyan", scheme.cyan>>,
                    <<"indigo", scheme.indigo>>,
                    <<"themeColor", scheme.themeColor>>>>)

generateJSON(scheme) ==
    JsonStringify(<<<<"primary", scheme.primary>>,
                    <<"primaryLight", scheme.primaryLight>>,
                    <<"primaryDark", scheme.primaryDark>>,
                    <<"cyan", scheme.cyan>>,
                    <<"indigo", scheme.indigo>>,
                    <<"themeColor", scheme.themeColor>>>>)

\* The string literal that starts after the quote at position i - 1 of the
\* line: its text, and the position after its closing quote.
RECURSIVE JsonReadString(_, _, _)
JsonReadString(line, i, text) ==
    IF i > Len(line) THEN [text |-> text, next |-> i]
    ELSE IF Char(line, i) = "\"" THEN [text |-> text, next |-> i + 1]
    ELSE IF Char(line, i) = "\\" THEN JsonReadString(line, i + 2, text \o Char(line, i + 1))
    ELSE JsonReadString(line, i + 1, text \o Char(line, i))

RECURSIVE SkipSpaces(_, _)
SkipSpaces(line, i) ==
    IF i <= Len(line) /\ Char(line, i) = " " THEN SkipSpaces(line, i + 1) ELSE i

\* One member line '"key": "value"' with its white space: the pair.
JsonMemberOfKey(line, key) ==
    <<key.text, JsonReadString(line, SkipSpaces(line, key.next + 1) + 1, "").text>>

JsonMember(line) == JsonMemberOfKey(line, JsonReadString(line, SkipSpaces(line, 1) + 1, ""))

\* JSON.parse of the text of an object of string members, one member a line.
JsonParse(lines) ==
    FromEntries([i \in 1..(Len(lines) - 2) |-> JsonMember(lines[i + 1])])

(***************************************************************************)
(* The command-line entry point.  An optional string (null, undefined or a *)
(* string) is a sequence of no or one string.  What console.log and        *)
(* console.error print is a sequence of lines.                             *)
(***************************************************************************)
\* args[++i]: undefined past the end of the arguments.
ArgAt(args, i) == IF i <= Len(args) THEN <<args[i]>> ELSE <<>>

\* The three variables of the entry point before the arguments are read.
DefaultOptions ==
    [help |-> FALSE, primaryColor |-> "#0ea5e9", outputPath |-> <<>>, format |-> <<"css">>]

\* The loop over the arguments, from argument i on; --help ends the process.
RECURSIVE ParseArgs(_, _, _)
ParseArgs(args, i, options) ==
    IF i > Len(args) THEN options
    ELSE IF args[i] \in {"--output", "-o"}
    THEN ParseArgs(args, i + 2, [options EXCEPT !.outputPath = ArgAt(args, i + 1)])
    ELSE IF args[i] \in {"--format", "-f"}
    THEN ParseArgs(args, i + 2, [options EXCEPT !.format = ArgAt(args, i + 1)])
    ELSE IF args[i] \in {"--help", "-h"}
    THEN [options EXCEPT !.help = TRUE]
    ELSE IF ~startsWith(args[i], "-")
    THEN ParseArgs(args, i + 1, [options EXCEPT !.primaryColor = args[i]])
    ELSE ParseArgs(args, i + 1, options)

HelpText ==
    <<"",
      "Color Scheme Generator for Info Evry Design System",
      "",
      "Usage: bun run tools/generate-colors.ts [color] [options]",
      "",
      "Arguments:",
      "  color           Primary color in hex format (e.g., #0ea5e9 or 0ea5e9)",
      "",
      "Options:",
      "  --output, -o    Output file path (default: stdout)",
      "  --format, -f    Output format: css, json, or both (default: css)",
      "  --help, -h      Show this help message",
      "",
      "Examples:",
      "  bun run tools/generate-colors.ts \"#0ea5e9\"",
      "  bun run tools/generate-colors.ts \"#e91e63\" --output src/tokens/colors.css",
      "  bun run tools/generate-colors.ts \"#4caf50\" --format json",
      "">>

\* The six console.log calls after generateColorScheme returned.
SummaryLines(scheme) ==
    <<"",
      "Generated color scheme from: " \o scheme.primary,
      "  Primary Light: " \o scheme.primaryLight,
      "  Primary Dark:  " \o scheme.primaryDark,
      "  Cyan:          " \o scheme.cyan,
      "  Indigo:        " \o scheme.indigo,
      "">>

\* The characters \w matches.
WordChars ==
    { Char("abcdefghijklmnopqrstuvwxyzABCDEFGHIJKLMNOPQRSTUVWXYZ0123456789_", i) : i \in 1..63 }

\* Where /\.\w+$/ matches in the path, 0 when it does not.
ExtensionStart(path) ==
    LET starts == { i \in 1..(Len(path) - 1) :
                      /\ Char(path, i) = "."
                      /\ \A j \in (i + 1)..Len(path) : Char(path, j) \in WordChars }
    IN  IF starts = {} THEN 0 ELSE CHOOSE i \in starts : \A j \in starts : i <= j

\* outputPath.replace(/\.\w+$/, extension)
ReplaceExtension(path, extension) ==
    IF ExtensionStart(path) = 0 THEN path
    ELSE SubSeq(path, 1, ExtensionStart(path) - 1) \o extension

\* The message of the error Bun.write rejects with.
WriteErrorMessage(path) == "EACCES: permission denied, open '" \o path \o "'"

CaughtWithoutExit(run, message) ==
    [run EXCEPT !.stderr = Append(@, "Error: " \o message)]

\* catch (error): console.error('Error:', message); process.exit(1)
Caught(run, message) ==
    [run EXCEPT !.stderr = Append(@, "Error: " \o message), !.exitCode = 1]

\* await Bun.write(path, text); console.log(`${label} written to: ${path}`)
\* A run that was caught does nothing more.
WriteStep(run, wanted, path, text, label) ==
    IF run.exitCode # 0 \/ ~wanted THEN run
    ELSE IF path \in run.unwritable THEN Caught(run, WriteErrorMessage(path))
    ELSE [run EXCEPT !.writes = Append(@, [path |-> path, text |-> text]),
                     !.stdout = Append(@, label \o " written to: " \o path)]

\* if (outputPath) { write the style sheet and/or the JSON text }
WriteOutputs(run, path, format, cssText, jsonText) ==
    WriteStep(
        WriteStep(run, format \in {<<"css">>, <<"both">>},
                  IF format = <<"both">> THEN ReplaceExtension(path, ".css") ELSE path,
                  cssText, "CSS"),
        format \in {<<"json">>, <<"both">>},
        IF format = <<"both">> THEN ReplaceExtension(path, ".json") ELSE path,
        jsonText, "JSON")

\* The body of try, after generateColorScheme returned the record.
OutputStage(run, options, cssText, jsonText) ==
    IF options.outputPath # <<>> /\ options.outputPath[1] # ""
    THEN WriteOutputs(run, options.outputPath[1], options.format, cssText, jsonText)
    ELSE [run EXCEPT !.stdout = @ \o (IF options.format = <<"json">> THEN jsonText ELSE cssText)]

GenerateStage(run, options, generated) ==
    IF generated.threw THEN Caught(run, generated.error)
    ELSE OutputStage([run EXCEPT !.stdout = SummaryLines(generated.scheme)], options,
                     generateCSS(generated.scheme), generateJSON(generated.scheme))

\* After the arguments are read.
RunWithOptions(run, options) ==
    IF options.help THEN [run EXCEPT !.help = TRUE, !.stdout = HelpText]
    ELSE GenerateStage([run EXCEPT !.primaryColor = options.primaryColor], options,
                       generateColorScheme(options.primaryColor))

\* import.meta.main: the run of the script with the arguments, on a file
\* system that refuses to write the paths of unwritable.
Main(args, unwritable) ==
    RunWithOptions([ran |-> TRUE, args |-> args, unwritable |-> unwritable, help |-> FALSE,
                    primaryColor |-> "", exitCode |-> 0, stdout |-> <<>>, stderr |-> <<>>,
                    writes |-> <<>>],
                   ParseArgs(args, 1, DefaultOptions))

(***************************************************************************)
(* The symbols utility: the name -> glyph map and its look-ups.            *)
(***************************************************************************)
\* A Map object: its identity and its entries.
NewMap(id, entries) == [id |-> id, entries |-> FromEntries(entries)]

\* The module variable symbolsMap while it is null.
NoMap == [id |-> 0, entries |-> <<>>]

\* Pairs of sfsymbols.json; every name and every glyph of the file is a
\* non-empty string.
symbolsData ==
    <<<<"house", "{U+house}">>, <<"gear", "{U+gear}">>, <<"star", "{U+star}">>,
      <<"house.fill", "{U+house.fill}">>, <<"person.2.fill", "{U+person.2.fill}">>>>

\* Map.prototype.get: undefined (no string) for a key the map does not have.
MapGet(map, key) == IF key \in DOMAIN map.entries THEN <<map.entries[key]>> ELSE <<>>

\* Map.prototype.has
MapHas(map, key) == key \in DOMAIN map.entries

\* value || fallback: undefined and the empty string are falsy.
OrElse(value, fallback) == IF value # <<>> /\ value[1] # "" THEN value[1] ELSE fallback

\* What loadSymbolsMap reads from the file: the pairs, or nothing when the
\* file is missing or cannot be read and parsed.
EntriesOfFile(file) == IF file = "valid" THEN symbolsData ELSE <<>>

loadSymbolsMapForgettingFailure(cache, file, built) ==
    IF cache.id # 0 THEN [map |-> cache, cache |-> cache, built |-> built]
    ELSE [map |-> NewMap(built + 1, EntriesOfFile(file)),
          cache |-> IF file = "valid" THEN NewMap(built + 1, EntriesOfFile(file)) ELSE cache,
          built |-> built + 1]

\* loadSymbolsMap of the caching version: the map it returns, and the module
\* variable and the number of maps built after the call.
loadSymbolsMap(cache, file, built) ==
    IF cache.id # 0 THEN [map |-> cache, cache |-> cache, built |-> built]
    ELSE [map |-> NewMap(built + 1, EntriesOfFile(file)),
          cache |-> NewMap(built + 1, EntriesOfFile(file)),
          built |-> built + 1]

getSymbolWithoutFallback(map, name) == IF MapHas(map, name) THEN map.entries[name] ELSE "undefined"

\* getSymbol on the map it looks the name up in.
getSymbol(map, name) == OrElse(MapGet(map, name), name)

\* hasSymbol on the map it looks the name up in.
hasSymbol(map, name) == MapHas(map, name)

(***************************************************************************)
(* replaceShortcodes of the sf-symbols integration.                        *)
(***************************************************************************)
\* The characters of [a-zA-Z0-9._-]
SymbolNameChars ==
    { Char("abcdefghijklmnopqrstuvwxyzABCDEFGHIJKLMNOPQRSTUVWXYZ0123456789._-", i) : i \in 1..65 }

\* The index after the longest run of name characters that starts at i: the
\* greedy ([a-zA-Z0-9._-]+) of SFS_PATTERN.
RECURSIVE NameEnd(_, _)
NameEnd(content, i) ==
    IF i <= Len(content) /\ Char(content, i) \in SymbolNameChars THEN NameEnd(content, i + 1)
    ELSE i

\* SFS_PATTERN matches at index i: "@sfs:", one or more name characters, "@".
\* The class has no "@", so the run cannot be shortened to find one.
MatchesAt(content, i, end) ==
    /\ i + 4 <= Len(content)
    /\ SubSeq(content, i, i + 4) = "@sfs:"
    /\ end > i + 5
    /\ end <= Len(content)
    /\ Char(content, end) = "@"

\* The callback of content.replace: the glyph when the lookup is truthy,
\* else the match as written.
Replacement(match, symbolName, map) == OrElse(MapGet(map, symbolName), match)

\* content.replace(SFS_PATTERN, callback) from index i on: matches taken
\* leftmost first, not overlapping, the text between them copied.
RECURSIVE ReplaceFrom(_, _, _)
ReplaceFrom(content, i, map) ==
    IF i > Len(content) THEN ""
    ELSE IF MatchesAt(content, i, NameEnd(content, i + 5))
         THEN Replacement(SubSeq(content, i, NameEnd(content, i + 5)),
                          SubSeq(content, i + 5, NameEnd(content, i + 5) - 1), map)
              \o ReplaceFrom(content, NameEnd(content, i + 5) + 1, map)
         ELSE Char(content, i) \o ReplaceFrom(content, i + 1, map)

\* The names console.warn reports as unknown, in order.
RECURSIVE WarningsFrom(_, _, _)
WarningsFrom(content, i, map) ==
    IF i > Len(content) THEN <<>>
    ELSE IF MatchesAt(content, i, NameEnd(content, i + 5))
         THEN (IF Replacement("", SubSeq(content, i + 5, NameEnd(content, i + 5) - 1), map) = ""
               THEN <<SubSeq(content, i + 5, NameEnd(content, i + 5) - 1)>>
               ELSE <<>>)
              \o WarningsFrom(content, NameEnd(content, i + 5) + 1, map)
         ELSE WarningsFrom(content, i + 1, map)

replaceShortcodes(content, map) == ReplaceFrom(content, 1, map)

(***************************************************************************)
(* The sf-symbols integration: the Vite plugin hooks and the pass over the *)
(* built HTML files.  SFS_PATTERN is one global (g) regular expression     *)
(* shared by all of them; lastIndex is its only state.  Indexes into a     *)
(* content start at 1 here, so the lastIndex k of JavaScript is the index  *)
(* of the k-th character.                                                  *)
(***************************************************************************)
\* The least index from i on at which SFS_PATTERN matches, 0 when there is
\* none.
RECURSIVE FirstMatchFrom(_, _)
FirstMatchFrom(content, i) ==
    IF i > Len(content) THEN 0
    ELSE IF MatchesAt(content, i, NameEnd(content, i + 5)) THEN i
    ELSE FirstMatchFrom(content, i + 1)

\* SFS_PATTERN.test(content) with the g flag: the search starts at lastIndex;
\* a match leaves lastIndex behind it, a failure sets it to 0.
RegExpTestAt(content, match) ==
    IF match = 0 THEN [found |-> FALSE, lastIndex |-> 0]
    ELSE [found |-> TRUE, lastIndex |-> NameEnd(content, match + 5)]

RegExpTest(content, lastIndex) == RegExpTestAt(content, FirstMatchFrom(content, lastIndex + 1))

\* How many matches the replace callback replaced by a glyph.
RECURSIVE ReplacedFrom(_, _, _)
ReplacedFrom(content, i, map) ==
    IF i > Len(content) THEN 0
    ELSE IF MatchesAt(content, i, NameEnd(content, i + 5))
         THEN (IF Replacement("", SubSeq(content, i + 5, NameEnd(content, i + 5) - 1), map) # ""
               THEN 1 ELSE 0)
              + ReplacedFrom(content, NameEnd(content, i + 5) + 1, map)
         ELSE ReplacedFrom(content, i + 1, map)

\* id.endsWith of one of the extensions transform processes.
IsProcessedId(id) ==
    \E extension \in {".astro", ".html", ".tsx", ".jsx"} :
        Len(id) >= Len(extension)
        /\ SubSeq(id, Len(id) - Len(extension) + 1, Len(id)) = extension

\* What a hook leaves: whether it returned new content or nothing (null, or
\* the html as given), the content, and lastIndex.
HookResult(skipped, output, lastIndex) == [skipped |-> skipped, output |-> output, lastIndex |-> lastIndex]

\* The hook after its test() guard: nothing when the test fails, else
\* lastIndex reset and replaceShortcodes, whose replace leaves lastIndex 0.
AfterTest(tested, content, map) ==
    IF ~tested.found THEN HookResult(TRUE, content, tested.lastIndex)
    ELSE HookResult(FALSE, replaceShortcodes(content, map), 0)

\* Fault injection: transform testing the content before it looks at the id.
transformTestingFirst(lastIndex, code, id, map) ==
    IF ~RegExpTest(code, lastIndex).found
    THEN HookResult(TRUE, code, RegExpTest(code, lastIndex).lastIndex)
    ELSE IF ~IsProcessedId(id) THEN HookResult(TRUE, code, RegExpTest(code, lastIndex).lastIndex)
    ELSE HookResult(FALSE, replaceShortcodes(code, map), 0)

\* transform(code, id) of the Vite plugin.
transform(lastIndex, code, id, map) ==
    IF ~IsProcessedId(id) THEN HookResult(TRUE, code, lastIndex)
    ELSE AfterTest(RegExpTest(code, lastIndex), code, map)

\* transformIndexHtml(html) of the Vite plugin (the version with this hook).
transformIndexHtml(lastIndex, html, map) == AfterTest(RegExpTest(html, lastIndex), html, map)

\* Fault injection: the pass writing every file in which the test found a
\* shortcode.
BuildDoneFileWrittenWhenTested(content, tested, map) ==
    [content |-> IF tested.found THEN ReplaceFrom(content, 1, map) ELSE content,
     written |-> tested.found,
     fileReplacements |-> IF tested.found THEN ReplacedFrom(content, 1, map) ELSE 0,
     lastIndex |-> IF tested.found THEN 0 ELSE tested.lastIndex]

\* One file of the astro:build:done pass: lastIndex reset, test, reset,
\* replace counting the replacements; the file is written when the count is
\* positive.
BuildDoneFile(content, tested, map) ==
    [content |-> IF tested.found /\ ReplacedFrom(content, 1, map) > 0
                 THEN ReplaceFrom(content, 1, map) ELSE content,
     written |-> tested.found /\ ReplacedFrom(content, 1, map) > 0,
     fileReplacements |-> IF tested.found THEN ReplacedFrom(content, 1, map) ELSE 0,
     lastIndex |-> IF tested.found THEN 0 ELSE tested.lastIndex]

\* The pass before its first file.
NoPass == [starts |-> <<>>, dist |-> <<>>, written |-> <<>>, counts |-> <<>>, total |-> 0, lastIndex |-> 0]

\* The pass after one more file: totalReplacements grows by the count of a
\* written file.
BuildDoneNext(pass, file) ==
    [starts |-> Append(pass.starts, pass.lastIndex),
     dist |-> Append(pass.dist, file.content),
     written |-> Append(pass.written, file.written),
     counts |-> Append(pass.counts, file.fileReplacements),
     total |-> pass.total + (IF file.written THEN file.fileReplacements ELSE 0),
     lastIndex |-> file.lastIndex]

\* The pass from file k on; pass holds what the files before it left: the
\* lastIndex each file found, the files on disk, which were written, the
\* count of each and the total.
RECURSIVE BuildDonePass(_, _, _, _)
BuildDonePass(files, k, pass, map) ==
    IF k > Len(files) THEN pass
    ELSE BuildDonePass(files, k + 1,
                       BuildDoneNext(pass, BuildDoneFile(files[k], RegExpTest(files[k], 0), map)),
                       map)

\* The hook of astro:build:done over the files found in the output directory.
buildDone(lastIndex, files, map) == BuildDonePass(files, 1, [NoPass EXCEPT !.lastIndex = lastIndex], map)

\* The map an exported function of the utility works on: the module variable
\* (static version) or what loadSymbolsMap() returns (caching version).
MapInUse(version, cache, file, built) ==
    IF version = "static" THEN [map |-> cache, cache |-> cache, built |-> built]
    ELSE loadSymbolsMap(cache, file, built)

(***************************************************************************)
(* The font-subsetting tool (tools/subset-font.ts).  A Set of names is the *)
(* sequence of its elements in insertion order.  A text of characters is  *)
(* the sequence of its characters: an ASCII character is itself, any other *)
(* a stand-in string, "{U+<code point>}" or the stand-in of a glyph.  A    *)
(* scanned file is a record of its path, whether it can be read, and its   *)
(* content.                                                                *)
(***************************************************************************)
\* Admin action symbols that are always needed.
ADMIN_SYMBOLS ==
    <<"pencil", "trash", "trash.fill", "xmark", "xmark.circle", "xmark.circle.fill",
      "checkmark", "checkmark.circle", "checkmark.circle.fill", "plus", "plus.circle",
      "plus.circle.fill", "chevron.right", "chevron.down", "chevron.left", "chevron.up",
      "gear", "person", "person.fill">>

\* The symbols map converted to a lookup.
symbolsLookup == NewMap(1, symbolsData)

\* Set.prototype.add
SetAdd(symbols, name) ==
    IF \E k \in DOMAIN symbols : symbols[k] = name THEN symbols ELSE Append(symbols, name)

RECURSIVE SetAddAll(_, _, _)
SetAddAll(symbols, names, k) ==
    IF k > Len(names) THEN symbols ELSE SetAddAll(SetAdd(symbols, names[k]), names, k + 1)

\* The text occurs in the content at index i.
HasAt(content, i, text) ==
    i + Len(text) - 1 <= Len(content) /\ SubSeq(content, i, i + Len(text) - 1) = text

\* The first index from i on whose character is one of stops, Len + 1 when
\* there is none.
Least(indexes, none) ==
    IF indexes = {} THEN none ELSE CHOOSE j \in indexes : \A other \in indexes : j <= other

RunEnd(content, i, stops) ==
    Least({j \in i..Len(content) : Char(content, j) \in stops}, Len(content) + 1)

\* \s* from i on: the first index whose character is not white space.
SpaceEnd(content, i) ==
    Least({j \in i..Len(content) : Char(content, j) \notin {" ", "\t"}}, Len(content) + 1)

\* The characters that open and that close the captured name of a pattern.
Openers(pattern) == IF pattern = "icon" THEN {"\"", "'"} ELSE {"\"", "'", "{"}

Closers(pattern) == IF pattern = "icon" THEN {"\"", "'"} ELSE {"\"", "'", "}"}

\* opener, ([^closers]+), closer with the opener at q: the capture is the
\* longest run without a closer, it is not empty and a closer follows it.
QuotedAt(pattern, content, q) ==
    /\ q <= Len(content)
    /\ Char(content, q) \in Openers(pattern)
    /\ RunEnd(content, q + 1, Closers(pattern)) > q + 1
    /\ RunEnd(content, q + 1, Closers(pattern)) <= Len(content)

\* <SFSymbol[^>]*name= : the indexes at which name= may start, after
\* characters that are not >.
NameStarts(content, i) ==
    { j \in (i + 9)..RunEnd(content, i + 9, {">"}) :
        HasAt(content, j, "name=") /\ QuotedAt("SFSymbol", content, j + 5) }

\* [^>]* is greedy: the last of the starts.
LastOf(starts) == IF starts = {} THEN 0 ELSE 5 + CHOOSE j \in starts : \A other \in starts : other <= j

\* Where the opener of the match of the pattern that starts at i is, 0 when
\* the pattern does not match at i.
OpenerAt(pattern, content, i) ==
    IF pattern = "SFSymbol"
    THEN (IF HasAt(content, i, "<SFSymbol") THEN LastOf(NameStarts(content, i)) ELSE 0)
    ELSE IF pattern = "icon"
    THEN (IF HasAt(content, i, "icon:") /\ QuotedAt(pattern, content, SpaceEnd(content, i + 5))
          THEN SpaceEnd(content, i + 5) ELSE 0)
    ELSE (IF HasAt(content, i, "ctaIcon=") /\ QuotedAt(pattern, content, i + 8) THEN i + 8 ELSE 0)

\* content.matchAll(pattern), each match[1] added to the set: the matches
\* from i on, one after the end of the other.
RECURSIVE AddMatchAt(_, _, _, _)
NextMatch(pattern, content, i) ==
    Least({j \in i..Len(content) : OpenerAt(pattern, content, j) # 0}, 0)

RECURSIVE AddMatchesFrom(_, _, _, _)
AddMatchesFrom(pattern, content, i, symbols) ==
    IF NextMatch(pattern, content, i) = 0 THEN symbols
    ELSE AddMatchAt(pattern, content, OpenerAt(pattern, content, NextMatch(pattern, content, i)), symbols)

\* The match whose opener is at q: match[1] is added, and the search goes
\* on behind the closer.
AddMatchAt(pattern, content, q, symbols) ==
    AddMatchesFrom(pattern, content, RunEnd(content, q + 1, Closers(pattern)) + 1,
                   SetAdd(symbols, SubSeq(content, q + 1, RunEnd(content, q + 1, Closers(pattern)) - 1)))

\* The three passes over one content.
AddMatchesOf(content, symbols) ==
    AddMatchesFrom("ctaIcon", content, 1,
                   AddMatchesFrom("icon", content, 1, AddMatchesFrom("SFSymbol", content, 1, symbols)))

\* The loop over the files from the k-th on: a file that cannot be read is
\* warned about and skipped.
RECURSIVE ExtractFrom(_, _, _)
ExtractFrom(files, k, found) ==
    IF k > Len(files) THEN found
    ELSE IF ~files[k].readable
    THEN ExtractFrom(files, k + 1,
                     [found EXCEPT !.warnings = Append(@, "Warning: Could not read " \o files[k].path)])
    ELSE ExtractFrom(files, k + 1, [found EXCEPT !.symbols = AddMatchesOf(files[k].content, @)])

extractSymbolNamesWithoutAdmin(files) == ExtractFrom(files, 1, [symbols |-> <<>>, warnings |-> <<>>])

\* extractSymbolNames: the set, and what console.warn printed.
extractSymbolNames(files) ==
    ExtractFrom(files, 1, [symbols |-> SetAddAll(<<>>, ADMIN_SYMBOLS, 1), warnings |-> <<>>])

\* getLatinChars: ASCII printable, Latin-1 Supplement and Latin Extended-A.
\* The ASCII printable characters but the grave accent (code point 96),
\* which a string of this notation cannot hold.
AsciiPrintable ==
    " !\"#$%&'()*+,-./0123456789:;<=>?@ABCDEFGHIJKLMNOPQRSTUVWXYZ[\\]^_abcdefghijklmnopqrstuvwxyz{|}~"

fromCharCode(code) ==
    IF code < 96 THEN Char(AsciiPrintable, code - 31)
    ELSE IF code > 96 /\ code < 127 THEN Char(AsciiPrintable, code - 32)
    ELSE "{U+" \o toString16(code) \o "}"

getLatinChars ==
    [k \in 1..95 |-> fromCharCode(31 + k)]
    \o [k \in 1..96 |-> fromCharCode(159 + k)]
    \o [k \in 1..128 |-> fromCharCode(255 + k)]

\* The loop of symbolsToChars over the names from the k-th on: chars is the
\* array of pieces.
RECURSIVE CharsFrom(_, _, _)
CharsFrom(symbolNames, k, made) ==
    IF k > Len(symbolNames) THEN made
    ELSE IF OrElse(MapGet(symbolsLookup, symbolNames[k]), "") # ""
    THEN CharsFrom(symbolNames, k + 1,
                   [made EXCEPT !.chars = Append(@, <<MapGet(symbolsLookup, symbolNames[k])[1]>>)])
    ELSE CharsFrom(symbolNames, k + 1,
                   [made EXCEPT !.warnings =
                       Append(@, "Warning: Unknown symbol \"" \o symbolNames[k] \o "\"")])

\* chars.join("")
RECURSIVE JoinPieces(_, _)
JoinPieces(pieces, k) ==
    IF k > Len(pieces) THEN <<>> ELSE pieces[k] \o JoinPieces(pieces, k + 1)

\* The space is pushed unless an element of the array is the space itself.
WithSpace(made) ==
    [text |-> JoinPieces(IF \E k \in DOMAIN made.chars : made.chars[k] = <<" ">>
                         THEN made.chars ELSE Append(made.chars, <<" ">>), 1),
     warnings |-> made.warnings]

symbolsToChars(symbolNames, includeLatinText) ==
    WithSpace(CharsFrom(symbolNames, 1,
                        [chars |-> IF includeLatinText THEN <<getLatinChars>> ELSE <<>>,
                         warnings |-> <<>>]))

\* The tool before it ran.
NoSubset ==
    [ran |-> FALSE, args |-> <<>>, files |-> <<>>, pyftsubset |-> "", branch |-> "none",
     symbolNames |-> <<>>, warnings |-> <<>>, characters |-> <<>>, font |-> "none", exitCode |-> 0]

\* subsetFont: the characters are written to the text file and pyftsubset
\* makes the font; when pyftsubset fails the error goes up to main's catch.
subsetFont(run, made, pyftsubset) ==
    [run EXCEPT !.branch = "subset", !.characters = made.text, !.warnings = @ \o made.warnings,
                !.font = IF pyftsubset = "ok" THEN "subset" ELSE "none",
                !.exitCode = IF pyftsubset = "ok" THEN 0 ELSE 1]

\* main after the symbol names are extracted: the full font is copied when
\* there is no name, else the characters are subset.
AfterExtract(run, found, pyftsubset) ==
    IF Len(found.symbols) = 0
    THEN [run EXCEPT !.branch = "copy", !.warnings = found.warnings, !.font = "full"]
    ELSE subsetFont([run EXCEPT !.symbolNames = found.symbols, !.warnings = found.warnings],
                    symbolsToChars(found.symbols, TRUE), pyftsubset)

\* main: args are the arguments after the script, projectFiles and
\* designFiles what findAstroFiles finds in the two directories, pyftsubset
\* whether the command is installed and succeeds ("ok") or not.  The mkdir
\* commands are taken to succeed.
main(args, projectFiles, designFiles, pyftsubset) ==
    IF Len(args) = 0 \/ args[1] = ""
    THEN [NoSubset EXCEPT !.ran = TRUE, !.args = args, !.branch = "usage", !.exitCode = 1]
    ELSE AfterExtract([NoSubset EXCEPT !.ran = TRUE, !.args = args, !.pyftsubset = pyftsubset,
                                       !.files = projectFiles \o designFiles],
                      extractSymbolNames(projectFiles \o designFiles), pyftsubset)

(***************************************************************************)
(* Inputs.                                                                 *)
(***************************************************************************)
\* Characters the seeds are built from: the prefix, a digit, a lower-case and
\* an upper-case hexadecimal letter.
Alphabet == {"#", "0", "f", "F"}

RECURSIVE StringsOfLen(_)
StringsOfLen(n) ==
    IF n = 0 THEN {""}
    ELSE { s \o c : s \in StringsOfLen(n - 1), c \in Alphabet }

\* The seeds the repository's tests and documentation use.
TestSeeds ==
    {"#0ea5e9", "0ea5e9", "invalid", "#gg0000", "#ff5722", "#001ba5", "#87ceeb",
     "#e91e63", "#4caf50", "#ff9800", "#9c27b0", "#00bcd4", "#ffffff", "#000000",
     "#ff0000", "#001BA5"}

\* Two-digit channels the sample colours are built from.
ChannelPairs == {"01", "0e", "57", "80", "a5", "E9", "fe"}

SampleSeeds ==
    { prefix \o r \o g \o b :
        prefix \in {"", "#"}, r \in ChannelPairs, g \in ChannelPairs, b \in ChannelPairs }

Seeds == UNION { StringsOfLen(n) : n \in 0..MaxSeedLen } \cup TestSeeds \cup SampleSeeds

\* Seeds whose hue is an odd multiple of 30 (30 and 90 degrees) and whose
\* double hue lies below it: rgb(33, 23, 13) and rgb(33, 37, 29); and a seed
\* whose hue is 20 degrees and whose double hue lies below it:
\* rgb(128, 62, 29).
RoundingSeeds == {"#21170d", "#21251d", "#803e1d"}

\* Strings handed to hexToRgb: the seeds above and colours in mixed case, too
\* short and too long.
HexInputs ==
    TestSeeds \cup SampleSeeds
    \cup {"#AbCdEf", "ABCDEF", "abcdef", "#0EA5E9", "#12345", "#1234567", "", "#"}

\* Integer channel values handed to rgbToHsl.
ByteSamples == {0, 1, 14, 39, 97, 126, 127, 128, 165, 233, 254, 255}

\* Colours handed to the transforms: those of the tests and the samples, some
\* of them not colours.
TransformColors ==
    TestSeeds \cup { seed \in SampleSeeds : startsWith(seed, "#") } \cup {"#ff8080"}

\* Amounts of lighten and darken, fractions in [0, 1].
Amounts == {Num(0), Rat(1, 100), Rat(12, 100), Rat(15, 100), Rat(1, 2), Num(1)}

\* Degrees of shiftHue: those of getComplementary, getAnalogous and
\* getTriadic, negative ones, and ones beyond a full turn either way.
Degrees ==
    {Num(-1000), Num(-720), Num(-400), Num(-360), Num(-180), Num(-30), Num(0), Rat(1, 2),
     Num(30), Num(120), Num(180), Num(240), Num(360), Num(1000)}

\* Names looked up: known ones, an unknown one and the empty string.
SymbolNames == {"house", "star", "house.fill", "unknown.symbol.name", ""}

\* Shortcodes as written in markup: known names, a name no map has and a
\* name one map gives the empty glyph.
ShortcodeTokens == {"@sfs:house@", "@sfs:person.2.fill@", "@sfs:unknown.fake@", "@sfs:blank@"}

\* Pieces of text without a shortcode, some of them nearly one; none of them
\* completes a shortcode with the part before or after it.
TextTokens == {"Icon: ", "<b>", "@sfs:@ ", "@sfs:house ", "a@b.c "}

RECURSIVE PartLists(_)
PartLists(n) ==
    IF n = 0 THEN {<<>>}
    ELSE { Append(parts, token) : parts \in PartLists(n - 1),
                                  token \in ShortcodeTokens \cup TextTokens }

RECURSIVE ConcatParts(_)
ConcatParts(parts) == IF parts = <<>> THEN "" ELSE Head(parts) \o ConcatParts(Tail(parts))

\* Maps handed to replaceShortcodes: an empty one (sfsymbols.json missing),
\* the symbols, and the symbols with a name whose glyph is the empty string.
ShortcodeMaps ==
    {NewMap(1, <<>>), NewMap(1, symbolsData), NewMap(1, Append(symbolsData, <<"blank", "">>))}

\* Contents the hooks of the integration are handed: without a shortcode,
\* with known ones, with an unknown one, with both.
PluginContents ==
    {"", "plain text", "a @sfs:house@ b @sfs:star@", "@sfs:unknown.fake@",
     "@sfs:unknown.fake@ and @sfs:house@"}

\* Module ids handed to transform.
PluginIds == {"src/pages/index.astro", "src/main.ts", "src/App.tsx"}

\* Contents of the HTML files of a build.
DistContents ==
    {"<p>plain</p>", "<i data-sfs=\"@sfs:house@\"></i><i data-sfs=\"@sfs:star@\"></i>",
     "<i data-sfs=\"@sfs:unknown.fake@\"></i>",
     "<i data-sfs=\"@sfs:unknown.fake@\"></i><i data-sfs=\"@sfs:house.fill@\"></i>"}

RECURSIVE DistLists(_)
DistLists(n) ==
    IF n = 0 THEN {<<>>}
    ELSE { Append(files, content) : files \in DistLists(n - 1), content \in DistContents }

\* Command-line arguments: a valid and an invalid colour, the options in
\* their long and short spellings, option values, file names, an unknown flag.
CliTokens ==
    {"#ff5722", "invalid", "-o", "--output", "-f", "--format", "json", "both",
     "out.css", "dir", "--help", "-x"}

RECURSIVE ArgLists(_)
ArgLists(n) ==
    IF n = 0 THEN {<<>>}
    ELSE { Append(args, token) : args \in ArgLists(n - 1), token \in CliTokens }

\* What the tool is run with: the arguments, the files of the project and of
\* the design system, and whether pyftsubset works.
SubsetArgs == {<<>>, <<"../astro-ndi">>}

ScannedFiles ==
    {[path |-> "src/pages/index.astro", readable |-> TRUE,
      content |-> "<SFSymbol name=\"house\" /><SFSymbol size={16} name={'star'} />"],
     [path |-> "src/pages/about.astro", readable |-> TRUE, content |-> "<p>About</p>"],
     [path |-> "src/layouts/Nav.astro", readable |-> TRUE,
      content |-> "items = [{ icon: \"gear\" }, { icon:'bell.fill' }]"],
     [path |-> "src/layouts/Base.astro", readable |-> TRUE,
      content |-> "<MobileNav ctaIcon=\"plus\" /><MobileNav ctaIcon={'person.2.fill'} />"],
     [path |-> "src/components/Card.tsx", readable |-> TRUE,
      content |-> "<SFSymbol name=\"a\" name=\"house.fill\"><SFSymbol class=\"x\">name=\"late\""],
     [path |-> "src/components/Empty.jsx", readable |-> TRUE, content |-> "<SFSymbol name=\"\" />"],
     [path |-> "src/pages/locked.astro", readable |-> FALSE, content |-> ""]}

RECURSIVE ScannedLists(_)
ScannedLists(n) ==
    IF n = 0 THEN {<<>>}
    ELSE {Append(files, file) : files \in ScannedLists(n - 1), file \in ScannedFiles}

DesignFiles ==
    {<<>>,
     <<[path |-> "src/components/SFSymbol.astro", readable |-> TRUE,
        content |-> "<span class=\"sf-symbol\">{char}</span>"]>>}

\* Command lines with a colour or none, a format option or none and an output
\* option or none, the options in either order; the output paths have one
\* extension, two, or none.
ColorArgs == {<<>>, <<"#ff5722">>, <<"invalid">>}

FormatArgs == {<<>>, <<"-f", "css">>, <<"--format", "json">>, <<"-f", "both">>, <<"--format", "xml">>}

OutputArgs ==
    {<<>>, <<"-o", "out.css">>, <<"--output", "colors">>, <<"-o", "build/colors.tar.gz">>,
     <<"--output", "dir">>}

OptionArgLists ==
    { color \o first \o second :
        color \in ColorArgs,
        first \in FormatArgs \cup OutputArgs,
        second \in FormatArgs \cup OutputArgs }

\* The paths the file system refuses to write: none, or a directory and a
\* read-only file.
Unwritables == {{}, {"dir", "out.json"}}

\* Channel values handed to rgbToHex: in range, fractional, and out of range.
ChannelSamples ==
    {Num(-1), Num(0), Rat(19, 2), Num(10), Num(165), Rat(509, 2), Num(255), Num(256)}

(***************************************************************************)
(* The state machine: one call of generateColorScheme followed by          *)
(* generateCSS on the record it returned, or one call of rgbToHex.         *)
(***************************************************************************)
NoResult == [threw |-> FALSE, error |-> "", scheme |-> NoScheme]

NoRgbOut == [r |-> 0, g |-> 0, b |-> 0]

\* The command line before it ran.
NoRun ==
    [ran |-> FALSE, args |-> <<>>, unwritable |-> {}, help |-> FALSE,
     primaryColor |-> "", exitCode |-> 0, stdout |-> <<>>, stderr |-> <<>>,
     writes |-> <<>>]

\* The symbols utility after its module loaded: the static version has built
\* its map from the imported data, the lazy version has built nothing.
ModuleLoaded(version, file) ==
    /\ variant = version
    /\ symbolsFile = file
    /\ symbolsMap = IF version = "static" THEN NewMap(1, symbolsData) ELSE NoMap
    /\ mapsBuilt = IF version = "static" THEN 1 ELSE 0
    /\ callLog = <<>>

\* No colour transform called yet.
NoTransform ==
    [op |-> "none", hex |-> "", amount |-> Num(0), threw |-> FALSE, out |-> "",
     hsl |-> [h |-> Num(0), s |-> Num(0), l |-> Num(0)]]

\* No operation of the integration yet.
NoOp == [op |-> "none", id |-> "", content |-> "", start |-> 0, skipped |-> FALSE, output |-> "", pass |-> NoPass]

\* The integration set up: lastIndex 0 as the regular expression literal
\* leaves it, the map loaded by configResolved / astro:config:setup, and the
\* HTML files of the output directory.
PluginLoaded(file, dist) ==
    [lastIndex |-> 0, map |-> NewMap(1, EntriesOfFile(file)), dist |-> dist, ops |-> 0, last |-> NoOp]

ToolsIdle == colorCall = NoTransform /\ plugin = PluginLoaded("valid", <<>>) /\ subset = NoSubset

\* replaceShortcodes before it was called.
NoCall ==
    [called |-> FALSE, parts |-> <<>>, content |-> "", map |-> NoMap, output |-> "",
     warnings |-> <<>>]

InitPalette ==
    /\ phase = "idle"
    /\ seedArg = ""
    /\ result = NoResult
    /\ css = <<>>
    /\ rgbArg = <<Num(0), Num(0), Num(0)>>
    /\ hexOut = ""
    /\ json = <<>>
    /\ hexArg = ""
    /\ rgbOut = NoRgbOut

\* The generator's modules loaded, nothing called yet; the symbols utility is
\* the one of src/utils/symbols.ts, whose map is built while the module loads.
Init ==
    /\ InitPalette
    /\ hueRounding = "exact"
    /\ cli = NoRun
    /\ ModuleLoaded("static", "valid")
    /\ shortcode = NoCall
    /\ ToolsIdle

CallGenerateColorScheme ==
    /\ phase = "idle"
    /\ \E seed \in Seeds :
        /\ seedArg' = seed
        /\ result' = generateColorScheme(seed)
    /\ phase' = IF result'.threw THEN "thrown" ELSE "returned"
    /\ UNCHANGED <<css, rgbArg, hexOut, json, hexArg, rgbOut>>
    /\ UNCHANGED <<hueRounding, cli, symbolVars, shortcode, toolVars>>

CallGenerateCSS ==
    /\ phase = "returned"
    /\ css' = generateCSS(result.scheme)
    /\ phase' = "rendered"
    /\ UNCHANGED <<seedArg, result, rgbArg, hexOut, json, hexArg, rgbOut>>
    /\ UNCHANGED <<hueRounding, cli, symbolVars, shortcode, toolVars>>

CallRgbToHex ==
    /\ phase = "idle"
    /\ \E r \in ChannelSamples, g \in ChannelSamples, b \in ChannelSamples :
        /\ rgbArg' = <<r, g, b>>
        /\ hexOut' = rgbToHexNum(r, g, b)
    /\ phase' = "converted"
    /\ UNCHANGED <<seedArg, result, css, json, hexArg, rgbOut>>
    /\ UNCHANGED <<hueRounding, cli, symbolVars, shortcode, toolVars>>

\* The palette of a seed of the tests or of the samples.
CallGenerateColorSchemeOfSample ==
    /\ phase = "idle"
    /\ \E seed \in TestSeeds \cup SampleSeeds \cup RoundingSeeds :
        /\ seedArg' = seed
        /\ result' = generateColorScheme(seed)
    /\ phase' = IF result'.threw THEN "thrown" ELSE "returned"
    /\ UNCHANGED <<css, rgbArg, hexOut, json, hexArg, rgbOut>>
    /\ UNCHANGED <<hueRounding, cli, symbolVars, shortcode, toolVars>>

CallGenerateJSON ==
    /\ phase = "returned"
    /\ json' = generateJSON(result.scheme)
    /\ phase' = "serialized"
    /\ UNCHANGED <<seedArg, result, css, rgbArg, hexOut, hexArg, rgbOut>>
    /\ UNCHANGED <<hueRounding, cli, symbolVars, shortcode, toolVars>>

\* rgbToHex(hexToRgb(hex)); hexToRgb may throw.
HexToRgbToHex(parsed) == IF parsed.threw THEN "" ELSE rgbToHex(parsed.rgb)

CallHexToRgbToHex ==
    /\ phase = "idle"
    /\ \E hex \in HexInputs :
        /\ hexArg' = hex
        /\ hexOut' = HexToRgbToHex(hexToRgb(hex))
        /\ phase' = IF hexToRgb(hex).threw THEN "rejected" ELSE "reencoded"
    /\ UNCHANGED <<seedArg, result, css, rgbArg, json, rgbOut>>
    /\ UNCHANGED <<hueRounding, cli, symbolVars, shortcode, toolVars>>

\* hslToRgb(rgbToHsl(rgb)) of three integer channels.
CallRgbToHslToRgb ==
    /\ phase = "idle"
    /\ \E r \in ByteSamples, g \in ByteSamples, b \in ByteSamples :
        /\ rgbArg' = <<Num(r), Num(g), Num(b)>>
        /\ rgbOut' = hslToRgb(rgbToHsl([r |-> r, g |-> g, b |-> b]))
    /\ phase' = "recomposed"
    /\ UNCHANGED <<seedArg, result, css, hexOut, json, hexArg>>
    /\ UNCHANGED <<hueRounding, cli, symbolVars, shortcode, toolVars>>

PaletteNext ==
    \/ CallGenerateColorSchemeOfSample
    \/ CallGenerateJSON
    \/ CallHexToRgbToHex
    \/ CallRgbToHslToRgb

\* As Init, with the arithmetic rounding the hue either way.
PaletteInit ==
    /\ InitPalette
    /\ hueRounding \in {"exact", "below"}
    /\ cli = NoRun
    /\ ModuleLoaded("static", "valid")
    /\ shortcode = NoCall
    /\ ToolsIdle

\* The serializer and the conversion round trips, on the sample colours.
PaletteSpec == PaletteInit /\ [][PaletteNext]_vars

\* A call of an exported function of the symbols utility: the module state
\* after it, and the call with what it returned in the log.
UtilityCall(inUse, op, name, text, flag) ==
    /\ Len(callLog) < MaxCalls
    /\ symbolsMap' = inUse.cache
    /\ mapsBuilt' = inUse.built
    /\ callLog' = Append(callLog, [op |-> op, name |-> name, text |-> text, flag |-> flag,
                                   map |-> inUse.map.id])
    /\ UNCHANGED <<variant, symbolsFile, paletteVars, hueRounding, cli, shortcode, toolVars>>

GetSymbolOn(inUse, name) ==
    UtilityCall(inUse, "getSymbol", name, getSymbol(inUse.map, name), FALSE)

GetSymbol ==
    \E name \in SymbolNames :
        GetSymbolOn(MapInUse(variant, symbolsMap, symbolsFile, mapsBuilt), name)

HasSymbolOn(inUse, name) ==
    UtilityCall(inUse, "hasSymbol", name, "", hasSymbol(inUse.map, name))

HasSymbol ==
    \E name \in SymbolNames :
        HasSymbolOn(MapInUse(variant, symbolsMap, symbolsFile, mapsBuilt), name)

\* getSymbolsMap, exported by the static version.
GetSymbolsMap ==
    /\ variant = "static"
    /\ UtilityCall(MapInUse(variant, symbolsMap, symbolsFile, mapsBuilt),
                   "getSymbolsMap", "", "", FALSE)

\* loadSymbolsMap, exported by the caching version.
LoadSymbolsMap ==
    /\ variant = "lazy"
    /\ UtilityCall(loadSymbolsMap(symbolsMap, symbolsFile, mapsBuilt),
                   "loadSymbolsMap", "", "", FALSE)

SymbolsNext ==
    \/ GetSymbol
    \/ HasSymbol
    \/ GetSymbolsMap
    \/ LoadSymbolsMap

\* Either version of the utility loaded; the caching version finds the file
\* in any condition.
SymbolsInit ==
    /\ InitPalette
    /\ hueRounding = "exact"
    /\ cli = NoRun
    /\ shortcode = NoCall
    /\ ToolsIdle
    /\ \/ ModuleLoaded("static", "valid")
       \/ \E file \in {"valid", "missing", "corrupt"} : ModuleLoaded("lazy", file)

SymbolsSpec == SymbolsInit /\ [][SymbolsNext]_vars

\* replaceShortcodes called on a content and a map. The function keeps no
\* state between calls, so one call is followed.
ReplaceShortcodesOn(parts, content, map) ==
    /\ ~shortcode.called
    /\ shortcode' = [called |-> TRUE, parts |-> parts, content |-> content, map |-> map,
                     output |-> replaceShortcodes(content, map),
                     warnings |-> WarningsFrom(content, 1, map)]
    /\ UNCHANGED <<paletteVars, hueRounding, cli, symbolVars, toolVars>>

CallReplaceShortcodes ==
    \E n \in 0..MaxParts : \E parts \in PartLists(n) : \E map \in ShortcodeMaps :
        ReplaceShortcodesOn(parts, ConcatParts(parts), map)

ShortcodeNext == CallReplaceShortcodes

ShortcodeSpec == Init /\ [][ShortcodeNext]_vars

\* A colour transform called on its own; the transforms keep no state, so one
\* call is followed.
TransformCalled(op, hex, amount, call, hsl) ==
    /\ colorCall.op = "none"
    /\ colorCall' = [op |-> op, hex |-> hex, amount |-> amount, threw |-> call.threw,
                     out |-> call.value, hsl |-> hsl]
    /\ UNCHANGED <<paletteVars, hueRounding, cli, symbolVars, shortcode, plugin, subset>>

CallLighten ==
    \E hex \in TransformColors, amount \in Amounts :
        TransformCalled("lighten", hex, amount, lighten(hex, amount), NoTransform.hsl)

CallDarken ==
    \E hex \in TransformColors, amount \in Amounts :
        TransformCalled("darken", hex, amount, darken(hex, amount), NoTransform.hsl)

CallShiftHue ==
    \E hex \in TransformColors, degrees \in Degrees :
        TransformCalled("shiftHue", hex, degrees, shiftHue(hex, degrees),
                        IF hexToRgb(hex).threw THEN NoTransform.hsl
                        ELSE shiftHueHsl(rgbToHsl(hexToRgb(hex).rgb), degrees))

\* rgbToHsl of three integer channels.
CallRgbToHsl ==
    /\ colorCall.op = "none"
    /\ \E r \in ByteSamples, g \in ByteSamples, b \in ByteSamples :
        /\ rgbArg' = <<Num(r), Num(g), Num(b)>>
        /\ colorCall' = [NoTransform EXCEPT !.op = "rgbToHsl",
                                            !.hsl = rgbToHsl([r |-> r, g |-> g, b |-> b])]
    /\ UNCHANGED <<phase, seedArg, result, css, hexOut, json, hexArg, rgbOut>>
    /\ UNCHANGED <<hueRounding, cli, symbolVars, shortcode, plugin, subset>>

TransformNext ==
    \/ CallLighten
    \/ CallDarken
    \/ CallShiftHue
    \/ CallRgbToHsl

TransformSpec == Init /\ [][TransformNext]_vars

\* A hook of the Vite plugin, or replaceShortcodes, ran.
HookRan(op, id, content, hook) ==
    /\ plugin.ops < MaxOps
    /\ plugin' = [plugin EXCEPT !.lastIndex = hook.lastIndex, !.ops = @ + 1,
                                !.last = [NoOp EXCEPT !.op = op, !.id = id, !.content = content,
                                                      !.start = plugin.lastIndex,
                                                      !.skipped = hook.skipped,
                                                      !.output = hook.output]]
    /\ UNCHANGED <<paletteVars, hueRounding, cli, symbolVars, shortcode, colorCall, subset>>

Transform ==
    \E code \in PluginContents, id \in PluginIds :
        HookRan("transform", id, code, transform(plugin.lastIndex, code, id, plugin.map))

TransformIndexHtml ==
    \E html \in PluginContents :
        HookRan("transformIndexHtml", "", html, transformIndexHtml(plugin.lastIndex, html, plugin.map))

\* replaceShortcodes called from another script: its replace starts at 0 and
\* leaves lastIndex 0.
ReplaceShortcodes ==
    \E content \in PluginContents :
        HookRan("replaceShortcodes", "", content,
                HookResult(FALSE, replaceShortcodes(content, plugin.map), 0))

BuildDoneRan(pass) ==
    /\ plugin.ops < MaxOps
    /\ plugin' = [plugin EXCEPT !.lastIndex = pass.lastIndex, !.ops = @ + 1, !.dist = pass.dist,
                                !.last = [NoOp EXCEPT !.op = "buildDone", !.start = plugin.lastIndex,
                                                      !.pass = [pass EXCEPT !.dist = plugin.dist]]]
    /\ UNCHANGED <<paletteVars, hueRounding, cli, symbolVars, shortcode, colorCall, subset>>

\* astro:build:done: every HTML file of the output directory is read, and
\* written when something was replaced in it.
BuildDone == BuildDoneRan(buildDone(plugin.lastIndex, plugin.dist, plugin.map))

PluginNext ==
    \/ Transform
    \/ TransformIndexHtml
    \/ ReplaceShortcodes
    \/ BuildDone

\* The integration set up with sfsymbols.json present or missing, over any
\* output directory.
PluginInit ==
    /\ InitPalette
    /\ hueRounding = "exact"
    /\ cli = NoRun
    /\ ModuleLoaded("static", "valid")
    /\ shortcode = NoCall
    /\ colorCall = NoTransform
    /\ subset = NoSubset
    /\ \E file \in {"valid", "missing"} : \E n \in 0..MaxFiles : \E dist \in DistLists(n) :
          plugin = PluginLoaded(file, dist)

PluginSpec == PluginInit /\ [][PluginNext]_vars

\* One run of the font-subsetting tool.
RunSubset ==
    /\ ~subset.ran
    /\ \E args \in SubsetArgs, n \in 0..MaxScanned, design \in DesignFiles, pyftsubset \in {"ok", "missing"} :
          \E files \in ScannedLists(n) : subset' = main(args, files, design, pyftsubset)
    /\ UNCHANGED <<paletteVars, hueRounding, cli, symbolVars, shortcode, colorCall, plugin>>

SubsetNext == RunSubset

SubsetSpec == Init /\ [][SubsetNext]_vars

\* One run of the script.
RunCli ==
    /\ ~cli.ran
    /\ \E n \in 0..MaxArgs :
        \E args \in ArgLists(n), unwritable \in Unwritables :
            cli' = Main(args, unwritable)
    /\ UNCHANGED <<paletteVars, hueRounding, symbolVars, shortcode, toolVars>>

\* One run of the script with a colour and options.
RunCliWithOptions ==
    /\ ~cli.ran
    /\ \E args \in OptionArgLists, unwritable \in Unwritables :
          cli' = Main(args, unwritable)
    /\ UNCHANGED <<paletteVars, hueRounding, symbolVars, shortcode, toolVars>>

CliNext == RunCli \/ RunCliWithOptions

CliSpec == Init /\ [][CliNext]_vars

Next ==
    \/ CallGenerateColorScheme
    \/ CallGenerateCSS
    \/ CallRgbToHex

Spec == Init /\ [][Next]_vars

(***************************************************************************)
(* Properties.                                                             *)
(***************************************************************************)
Called == phase \in {"returned", "thrown", "rendered"}

Succeeded == phase \in {"returned", "rendered"}

HexDigitChars ==
    {"0", "1", "2", "3", "4", "5", "6", "7", "8", "9",
     "a", "b", "c", "d", "e", "f", "A", "B", "C", "D", "E", "F"}

LowerHexDigitChars ==
    {"0", "1", "2", "3", "4", "5", "6", "7", "8", "9", "a", "b", "c", "d", "e", "f"}

IsSixHexDigits(s) == Len(s) = 6 /\ \A i \in 1..6 : Char(s, i) \in HexDigitChars

\* ^#?[0-9a-fA-F]{6}$
MatchesSeedPattern(s) ==
    \/ IsSixHexDigits(s)
    \/ Len(s) = 7 /\ Char(s, 1) = "#" /\ IsSixHexDigits(SubSeq(s, 2, 7))

\* The seed canonicalized: '#' prepended only when it is missing.
Canonical(s) == IF Len(s) > 0 /\ Char(s, 1) = "#" THEN s ELSE "#" \o s

\* C1: generateColorScheme(seed) returns a palette record if and only if the
\* seed matches ^#?[0-9a-fA-F]{6}$; for every other string it raises the
\* invalid-color error.
C1_PaletteIffSeedMatches ==
    Called =>
        /\ MatchesSeedPattern(seedArg) <=> (~result.threw /\ result.scheme # NoScheme)
        /\ ~MatchesSeedPattern(seedArg) <=>
              (result.threw /\ startsWith(result.error, "Invalid hex color: "))

C1_Witness ==
    /\ phase = "thrown"
    /\ Len(seedArg) = 7
    /\ startsWith(seedArg, "#")
    /\ startsWith(result.error, "Invalid hex color: ")

\* C2: when generateColorScheme fails, the error is the one hexToRgb raised for
\* the canonicalized seed, unwrapped; its message includes the offending input;
\* and no palette record, partial or fallback, is produced, nor any style sheet.
C2_FailureIsHexToRgbError ==
    phase = "thrown" =>
        /\ result.threw
        /\ result.error = "Invalid hex color: " \o Canonical(seedArg)
        /\ includes(result.error, seedArg)
        /\ result.scheme = NoScheme
        /\ css = <<>>

C2_Witness ==
    /\ phase = "thrown"
    /\ seedArg = "invalid"
    /\ result.error = "Invalid hex color: #invalid"

\* The other spelling of a seed: without its leading '#', or with one added.
OtherSpelling(s) == IF startsWith(s, "#") THEN SubSeq(s, 2, Len(s)) ELSE "#" \o s

ChannelSum(hex) ==
    parseInt16(SubSeq(hex, 2, 3)) + parseInt16(SubSeq(hex, 4, 5)) + parseInt16(SubSeq(hex, 6, 7))

\* C5: for every valid seed the channel sum of primaryLight is strictly greater
\* than that of primary and the channel sum of primaryDark strictly less; the
\* only exceptions are white (765) for primaryLight and black (0) for
\* primaryDark, where the sums are equal.
C5_VariantsMonotone ==
    Succeeded =>
        LET sum == ChannelSum(result.scheme.primary)
            light == ChannelSum(result.scheme.primaryLight)
            dark == ChannelSum(result.scheme.primaryDark)
        IN /\ (sum # 765) => (light > sum)
           /\ (sum # 0) => (dark < sum)
           /\ (sum = 765) => (light = sum)
           /\ (sum = 0) => (dark = sum)

\* A seed that is not white and whose lightened variant is clamped to white.
C5_Witness ==
    /\ phase = "returned"
    /\ ChannelSum(result.scheme.primary) < 765
    /\ result.scheme.primaryLight = "#ffffff"
    /\ ChannelSum(result.scheme.primaryDark) < ChannelSum(result.scheme.primary)

IsHexColor(s) ==
    Len(s) = 7 /\ Char(s, 1) = "#" /\ \A i \in 2..7 : Char(s, i) \in HexDigitChars

IsLowerHexColor(s) ==
    Len(s) = 7 /\ Char(s, 1) = "#" /\ \A i \in 2..7 : Char(s, i) \in LowerHexDigitChars

\* A channel rounded to the nearest integer and clamped to [0,255].
ClampedChannel(n) ==
    IF RLt(n, Num(0)) THEN 0 ELSE IF RLt(Num(255), n) THEN 255 ELSE MathRound(n)

\* Two lower-case hexadecimal digits of an integer in 0..255.
TwoHexDigits(k) == Char(LowerHexDigits, (k \div 16) + 1) \o Char(LowerHexDigits, (k % 16) + 1)

\* C6: for every valid seed, primary, primaryLight, primaryDark, cyan and indigo
\* are 7-character strings matching ^#[0-9a-f]{6}$ case-insensitively (the
\* derived ones in lower case); rgbToHex emits '#' followed by three zero-padded
\* two-digit lower-case hex channels, each rounded and clamped to [0,255].
C6_HexFormat ==
    /\ Succeeded =>
        /\ IsHexColor(result.scheme.primary)
        /\ IsLowerHexColor(result.scheme.primaryLight)
        /\ IsLowerHexColor(result.scheme.primaryDark)
        /\ IsLowerHexColor(result.scheme.cyan)
        /\ IsLowerHexColor(result.scheme.indigo)
    /\ phase = "converted" =>
        /\ IsLowerHexColor(hexOut)
        /\ hexOut = "#" \o TwoHexDigits(ClampedChannel(rgbArg[1]))
                        \o TwoHexDigits(ClampedChannel(rgbArg[2]))
                        \o TwoHexDigits(ClampedChannel(rgbArg[3]))

\* rgbToHex on a channel above the range, a fractional one and a negative one.
C6_Witness ==
    /\ phase = "converted"
    /\ rgbArg = <<Num(256), Rat(19, 2), Num(-1)>>
    /\ hexOut = "#ff0a00"

\* 'rgba(r, g, b, alpha)' of a #rrggbb string.
RgbaText(hex, alpha) ==
    "rgba(" \o toString10(parseInt16(SubSeq(hex, 2, 3))) \o ", "
            \o toString10(parseInt16(SubSeq(hex, 4, 5))) \o ", "
            \o toString10(parseInt16(SubSeq(hex, 6, 7))) \o ", " \o alpha \o ")"

\* C7: for every valid seed, primaryGlow is 'rgba(r, g, b, 0.4)' of primary, and
\* the glow strings are '0 0 80px <rgba>': glowPrimary of primary at 0.4 (so
\* '0 0 80px ' + primaryGlow), glowBlue of primary at 0.35, glowCyan of the
\* derived cyan at 0.3.
C7_GlowStrings ==
    Succeeded =>
        /\ result.scheme.primaryGlow = RgbaText(result.scheme.primary, "0.4")
        /\ result.scheme.glowPrimary = "0 0 80px " \o result.scheme.primaryGlow
        /\ result.scheme.glowBlue = "0 0 80px " \o RgbaText(result.scheme.primary, "0.35")
        /\ result.scheme.glowCyan = "0 0 80px " \o RgbaText(result.scheme.cyan, "0.3")

C7_Witness ==
    /\ phase = "returned"
    /\ seedArg = "#0ea5e9"
    /\ result.scheme.primaryGlow = "rgba(14, 165, 233, 0.4)"
    /\ result.scheme.glowCyan = "0 0 80px rgba(46, 188, 252, 0.3)"

RequiredProperties ==
    {"--color-bg", "--color-surface", "--color-text", "--color-primary",
     "--color-primary-light", "--color-primary-dark", "--color-primary-glow",
     "--color-cyan", "--color-indigo", "--color-success", "--color-warning",
     "--color-error", "--gradient-primary", "--gradient-blue", "--gradient-blue-intense",
     "--gradient-accent", "--glow-primary", "--glow-blue", "--glow-cyan",
     "--border-subtle", "--border-default", "--border-hover"}

\* Some line of the text declares the custom property.
Declares(lines, name) ==
    \E i \in 1..Len(lines) : startsWith(lines[i], "  " \o name \o ": ")

\* C9: for every valid seed, generateCSS(generateColorScheme(seed)) contains the
\* canonicalized seed hex string and declares every required custom property.
C9_CssCoverage ==
    phase = "rendered" =>
        /\ \E i \in 1..Len(css) : includes(css[i], Canonical(seedArg))
        /\ \A name \in RequiredProperties : Declares(css, name)

C9_Witness ==
    /\ phase = "rendered"
    /\ seedArg = "0ea5e9"
    /\ \E i \in 1..Len(css) : css[i] = "  --glow-cyan: " \o result.scheme.glowCyan \o ";"

\* C10 as stated: the style-sheet text begins with ':root {' and contains the
\* line '--color-primary: <primary>;' for the canonicalized seed.
C10_BeginsWithRoot ==
    phase = "rendered" =>
        /\ startsWith(css[1], ":root {")
        /\ \E i \in 1..Len(css) : css[i] = "  --color-primary: " \o Canonical(seedArg) \o ";"

\* C10 amended: the text begins with a four-line header comment and an empty
\* line, the ':root {' line follows them, and the text contains the line
\* '--color-primary: <primary>;' for the canonicalized seed.
C10_RootAfterHeader ==
    phase = "rendered" =>
        /\ startsWith(css[1], "/*")
        /\ \A i \in 1..3 : ~includes(css[i], "*/")
        /\ includes(css[4], "*/")
        /\ css[5] = ""
        /\ css[6] = ":root {"
        /\ \E i \in 1..Len(css) : css[i] = "  --color-primary: " \o Canonical(seedArg) \o ";"

C10_Witness ==
    /\ phase = "rendered"
    /\ seedArg = "#0ea5e9"
    /\ css[21] = "  --color-primary: #0ea5e9;"

(***************************************************************************)
(* generateCSS and the fields of the record.                               *)
(***************************************************************************)
\* The custom property the template gives each field of the record.
PropertyOfField ==
    [primary |-> "--color-primary", primaryLight |-> "--color-primary-light",
     primaryDark |-> "--color-primary-dark", primaryGlow |-> "--color-primary-glow",
     cyan |-> "--color-cyan", indigo |-> "--color-indigo",
     gradientPrimary |-> "--gradient-primary", gradientBlue |-> "--gradient-blue",
     gradientBlueIntense |-> "--gradient-blue-intense",
     gradientAccent |-> "--gradient-accent", glowPrimary |-> "--glow-primary",
     glowBlue |-> "--glow-blue", glowCyan |-> "--glow-cyan"]

endsWith(s, suffix) ==
    /\ Len(s) >= Len(suffix)
    /\ SubSeq(s, Len(s) - Len(suffix) + 1, Len(s)) = suffix

\* Some line of the text is the declaration 'name: value;'.
DeclaresValue(lines, name, value) ==
    \E i \in 1..Len(lines) : lines[i] = "  " \o name \o ": " \o value \o ";"

\* Some line declares a custom property named after the theme colour and
\* gives it the value.
DeclaresThemeProperty(lines, value) ==
    \E i \in 1..Len(lines) :
        /\ startsWith(lines[i], "  --")
        /\ includes(lines[i], "theme")
        /\ endsWith(lines[i], ": " \o value \o ";")

EmbeddedFields(lines, scheme) ==
    \A f \in DOMAIN PropertyOfField : DeclaresValue(lines, PropertyOfField[f], scheme[f])

\* C11 as stated: generateCSS embeds every field of the palette record, the
\* fourteenth field themeColor included, as its own named custom property.
C11_EveryFieldEmbedded ==
    phase = "rendered" =>
        /\ DOMAIN result.scheme = DOMAIN PropertyOfField \cup {"themeColor"}
        /\ EmbeddedFields(css, result.scheme)
        /\ DeclaresThemeProperty(css, result.scheme.themeColor)

\* C11 amended: generateCSS embeds every field of the palette record except
\* themeColor as its own named custom property (thirteen properties with
\* pairwise different names); no line of the output mentions a theme
\* property, and themeColor's value is in the output only as the value of
\* --color-primary, the field it copies.
C11_EveryFieldButThemeColor ==
    phase = "rendered" =>
        /\ DOMAIN result.scheme = DOMAIN PropertyOfField \cup {"themeColor"}
        /\ EmbeddedFields(css, result.scheme)
        /\ \A f, g \in DOMAIN PropertyOfField :
              PropertyOfField[f] = PropertyOfField[g] => f = g
        /\ \A i \in 1..Len(css) : ~includes(css[i], "theme")
        /\ DeclaresValue(css, "--color-primary", result.scheme.themeColor)

C11_Witness ==
    /\ phase = "rendered"
    /\ seedArg = "#ff5722"
    /\ DeclaresValue(css, "--gradient-blue-intense", result.scheme.gradientBlueIntense)
    /\ result.scheme.themeColor = "#ff5722"

(***************************************************************************)
(* generateJSON.                                                           *)
(***************************************************************************)
JsonFields == {"primary", "primaryLight", "primaryDark", "cyan", "indigo", "themeColor"}

RECURSIVE IndexIn(_, _, _)
IndexIn(c, alphabet, i) ==
    IF i > Len(alphabet) THEN 0
    ELSE IF Char(alphabet, i) = c THEN i
    ELSE IndexIn(c, alphabet, i + 1)

LowerCaseChar(c) ==
    IF IndexIn(c, "ABCDEFGHIJKLMNOPQRSTUVWXYZ", 1) = 0 THEN c
    ELSE Char("abcdefghijklmnopqrstuvwxyz", IndexIn(c, "ABCDEFGHIJKLMNOPQRSTUVWXYZ", 1))

RECURSIVE LowerCase(_)
LowerCase(s) ==
    IF s = "" THEN "" ELSE LowerCaseChar(Char(s, 1)) \o LowerCase(SubSeq(s, 2, Len(s)))

\* C13: for every valid hex color c (with or without '#', any letter case),
\* rgbToHex(hexToRgb(c)) equals c normalized to lowercase with a leading '#'.
C13_HexRoundTrip ==
    phase \in {"reencoded", "rejected"} /\ MatchesSeedPattern(hexArg) =>
        /\ phase = "reencoded"
        /\ hexOut = LowerCase(Canonical(hexArg))

C13_Witness ==
    /\ phase = "reencoded"
    /\ hexArg = "57E9fe"
    /\ hexOut = "#57e9fe"

\* C14: for every RGB triple of integers in [0,255], hslToRgb(rgbToHsl(rgb))
\* reproduces the original three integer channels exactly.
C14_HslRoundTrip ==
    phase = "recomposed" =>
        /\ rgbOut.r = rgbArg[1][1]
        /\ rgbOut.g = rgbArg[2][1]
        /\ rgbOut.b = rgbArg[3][1]

C14_Witness ==
    /\ phase = "recomposed"
    /\ rgbArg = <<Num(97), Num(39), Num(126)>>
    /\ rgbOut = [r |-> 97, g |-> 39, b |-> 126]

(***************************************************************************)
(* The record of generateColorScheme: brand, and cyan.                     *)
(***************************************************************************)
Generated == phase \in {"returned", "serialized", "rendered"}

\* C15: generateColorScheme returns a brand field equal to the canonicalized
\* original seed, and primary is boosted for dark-theme visibility: for a
\* dark seed (#001ba5, #000000) primary differs from brand, while for a seed
\* that is already light enough (#87ceeb, #ffffff) primary equals brand.
C15_BrandAndBoostedPrimary ==
    Generated =>
        /\ "brand" \in DOMAIN result.scheme
        /\ result.scheme["brand"] = Canonical(seedArg)
        /\ seedArg \in {"#001ba5", "#000000"} => result.scheme.primary # result.scheme["brand"]
        /\ seedArg \in {"#87ceeb", "#ffffff"} => result.scheme.primary = result.scheme["brand"]

\* The seed's HSL, and the colour the cyan accent is specified to be.
SeedHsl == rgbToHsl(hexToRgb(Canonical(seedArg)).rgb)

SpecifiedCyanHue(hsl) == RAdd(Num(180), RMod(hsl.h, 30))

SpecifiedCyan(hsl) ==
    rgbToHex(hslToRgb([h |-> SpecifiedCyanHue(hsl),
                       s |-> RMin(Num(1), RMul(Rat(11, 10), hsl.s)),
                       l |-> RMin(Rat(85, 100), RAdd(hsl.l, Rat(1, 10)))]))

\* C20: for every valid seed with HSL (h, s, l), cyan is the hex encoding of
\* the HSL color with hue 180 + (h mod 30), saturation min(1, 1.1*s) and
\* lightness min(0.85, l + 0.1); its hue therefore always lies in [180, 210)
\* whatever the seed's hue.
C20_CyanFromSeedHsl ==
    Generated =>
        /\ ~RLt(SpecifiedCyanHue(SeedHsl), Num(180))
        /\ RLt(SpecifiedCyanHue(SeedHsl), Num(210))
        /\ result.scheme.cyan = SpecifiedCyan(SeedHsl)

(***************************************************************************)
(* The command line.                                                       *)
(***************************************************************************)
ValueFlags == {"--output", "-o", "--format", "-f"}

\* Argument i is the value of the option before it.
IsOptionValue(args, i) ==
    /\ i > 1
    /\ args[i - 1] \in ValueFlags
    /\ i = 2 \/ args[i - 2] \notin ValueFlags

\* No argument is a positional colour: each is a flag or an option's value.
NoPositional(args) ==
    \A i \in 1..Len(args) : startsWith(args[i], "-") \/ IsOptionValue(args, i)

Generates == cli.ran /\ ~cli.help

UsesDefaultSeed ==
    Generates /\ NoPositional(cli.args) =>
        /\ cli.primaryColor = "#0ea5e9"
        /\ Len(cli.stdout) >= 2
        /\ cli.stdout[2] = "Generated color scheme from: #0ea5e9"

InvalidColorRejected ==
    Generates /\ ~MatchesSeedPattern(cli.primaryColor) =>
        /\ cli.exitCode # 0
        /\ cli.stderr = <<"Error: Invalid hex color: " \o Canonical(cli.primaryColor)>>
        /\ cli.stdout = <<>>
        /\ cli.writes = <<>>

\* C16 as stated: the run uses seed #0ea5e9 when no positional color argument
\* is given, ends with exit code 0 when generation succeeds, and ends with a
\* non-zero exit code after printing the validation error message to the
\* error stream when the color is invalid, in which case no CSS or JSON is
\* printed or written.
C16_ExitZeroWhenGenerated ==
    /\ UsesDefaultSeed
    /\ Generates /\ MatchesSeedPattern(cli.primaryColor) => cli.exitCode = 0
    /\ InvalidColorRejected

\* C16 amended: unless --help ends the run first, the run uses seed #0ea5e9
\* when no positional color argument is given; it ends with exit code 0 when
\* generation succeeds and no file write is rejected, and with a non-zero
\* exit code after printing the write error to the error stream when
\* generation succeeds and a write is rejected; it ends with a non-zero exit
\* code after printing the validation error message to the error stream when
\* the color is invalid, in which case no CSS or JSON is printed or written.
C16_ExitZeroWhenGeneratedAndWritten ==
    /\ UsesDefaultSeed
    /\ Generates /\ MatchesSeedPattern(cli.primaryColor) =>
        /\ cli.unwritable = {} => cli.exitCode = 0 /\ cli.stderr = <<>>
        /\ cli.exitCode # 0 =>
              \E path \in cli.unwritable :
                  cli.stderr = <<"Error: " \o WriteErrorMessage(path)>>
        /\ cli.exitCode = 0 <=> cli.stderr = <<>>
    /\ InvalidColorRejected

C16_Witness ==
    /\ cli.ran
    /\ cli.args = <<"invalid", "-o", "out.css">>
    /\ cli.exitCode = 1
    /\ cli.stderr = <<"Error: Invalid hex color: #invalid">>
    /\ cli.writes = <<>>

\* The colour the indigo accent is specified to be.
SpecifiedIndigoHue(hsl) == RAdd(Num(240), RMod(hsl.h, 20))

SpecifiedIndigo(hsl) ==
    rgbToHex(hslToRgb([h |-> SpecifiedIndigoHue(hsl),
                       s |-> RMul(Rat(9, 10), hsl.s),
                       l |-> RMul(Rat(95, 100), hsl.l)]))

\* The HSL lightness of a #rrggbb string.
LightnessOf(hex) == rgbToHsl(hexToRgb(hex).rgb).l

\* C21: for every valid seed with HSL (h, s, l), indigo is the hex encoding of
\* the HSL color with hue 240 + (h mod 20), saturation 0.9*s and lightness
\* 0.95*l; its hue therefore always lies in [240, 260) and its lightness
\* never exceeds the seed's.
C21_IndigoFromSeedHsl ==
    Generated =>
        /\ ~RLt(SpecifiedIndigoHue(SeedHsl), Num(240))
        /\ RLt(SpecifiedIndigoHue(SeedHsl), Num(260))
        /\ result.scheme.indigo = SpecifiedIndigo(SeedHsl)
        /\ ~RLt(SeedHsl.l, LightnessOf(result.scheme.indigo))

(***************************************************************************)
(* The gradient strings.                                                   *)
(***************************************************************************)
IsLinearGradient(text) == startsWith(text, "linear-gradient(135deg, ") /\ endsWith(text, ")")

\* The colours of the stops of a gradient, in order.
RECURSIVE StopColorsFrom(_, _)
StopColorsFrom(text, i) ==
    IF i > Len(text) THEN <<>>
    ELSE IF Char(text, i) = "#" THEN <<SubSeq(text, i, i + 6)>> \o StopColorsFrom(text, i + 7)
    ELSE StopColorsFrom(text, i + 1)

StopColors(text) == StopColorsFrom(text, 1)

\* The positions of the stops of a gradient, in order: what follows each
\* colour up to the next comma or the closing parenthesis.
RECURSIVE StopPositionsFrom(_, _, _)
StopPositionsFrom(text, i, position) ==
    IF i > Len(text) THEN <<>>
    ELSE IF Char(text, i) = "#" THEN StopPositionsFrom(text, i + 8, "")
    ELSE IF Char(text, i) = "%" THEN <<position \o "%">> \o StopPositionsFrom(text, i + 1, "")
    ELSE StopPositionsFrom(text, i + 1, position \o Char(text, i))

\* The stops after the direction.
StopPositions(text) == StopPositionsFrom(text, 25, "")

GradientFields == {"gradientPrimary", "gradientBlue", "gradientBlueIntense", "gradientAccent"}

\* The color fields of a palette record.
ColorFieldValues(scheme) ==
    {scheme.primary, scheme.primaryLight, scheme.primaryDark, scheme.cyan, scheme.indigo}

GradientPrimaryRuns(scheme) ==
    /\ StopColors(scheme.gradientPrimary) = <<scheme.primaryDark, scheme.primary, scheme.cyan>>
    /\ StopPositions(scheme.gradientPrimary) = <<"0%", "50%", "100%">>

\* C22: each of the four gradient strings is a 'linear-gradient(135deg, ...)'
\* whose color stops are all color fields of the same palette record
\* (primary, primaryLight, primaryDark, cyan, indigo); in particular
\* gradientPrimary runs from primaryDark (0%) through primary (50%) to cyan
\* (100%).
C22_StopsAreColorFields ==
    Generated =>
        /\ \A field \in GradientFields :
              /\ IsLinearGradient(result.scheme[field])
              /\ \A k \in 1..Len(StopColors(result.scheme[field])) :
                    StopColors(result.scheme[field])[k] \in ColorFieldValues(result.scheme)
        /\ GradientPrimaryRuns(result.scheme)

\* C22 as the code has it: the stops are color fields of the record except
\* the first stop of gradientBlueIntense, which is darken(primary, 0.15), a
\* colour the record does not hold.
C22_StopsAreColorFieldsButIntenseDark ==
    Generated =>
        /\ \A field \in GradientFields : IsLinearGradient(result.scheme[field])
        /\ GradientPrimaryRuns(result.scheme)
        /\ StopColors(result.scheme.gradientBlue) = <<result.scheme.primary, result.scheme.cyan>>
        /\ StopColors(result.scheme.gradientAccent) = <<result.scheme.primary, result.scheme.indigo>>
        /\ StopColors(result.scheme.gradientBlueIntense) =
              <<darken(result.scheme.primary, Rat(15, 100)).value, result.scheme.primary,
                result.scheme.primaryLight>>

C22_Witness ==
    /\ Generated
    /\ seedArg = "#0ea5e9"
    /\ StopColors(result.scheme.gradientPrimary) = <<"#0b7caf", "#0ea5e9", "#2ebcfc">>
    /\ StopColors(result.scheme.gradientBlueIntense)[1] \notin ColorFieldValues(result.scheme)

(***************************************************************************)
(* The colour transforms.                                                  *)
(***************************************************************************)
\* C23: for every valid hex color and every amount in [0,1], the HSL
\* lightness of lighten(hex, amount) is never below that of hex and the HSL
\* lightness of darken(hex, amount) is never above it, with lightness
\* clamped to [0,1]: lighten(#ffffff, amount) = #ffffff and
\* darken(#000000, amount) = #000000.
C23_LightnessMonotone ==
    colorCall.op \in {"lighten", "darken"} /\ ~colorCall.threw =>
        /\ IsLowerHexColor(colorCall.out)
        /\ colorCall.op = "lighten" => ~RLt(LightnessOf(colorCall.out), LightnessOf(colorCall.hex))
        /\ colorCall.op = "darken" => ~RLt(LightnessOf(colorCall.hex), LightnessOf(colorCall.out))
        /\ colorCall.op = "lighten" /\ colorCall.hex = "#ffffff" => colorCall.out = "#ffffff"
        /\ colorCall.op = "darken" /\ colorCall.hex = "#000000" => colorCall.out = "#000000"
        /\ colorCall.op = "lighten" /\ colorCall.amount = Num(1) => colorCall.out = "#ffffff"
        /\ colorCall.op = "darken" /\ colorCall.amount = Num(1) => colorCall.out = "#000000"

\* A colour lightened up to the clamp.
C23_Witness ==
    /\ colorCall.op = "lighten"
    /\ colorCall.hex = "#ff5722"
    /\ colorCall.amount = Rat(1, 2)
    /\ colorCall.out = "#ffffff"

\* C24: for every valid hex color and every number of degrees (positive or
\* negative, of any magnitude), shiftHue computes a hue normalized into
\* [0,360) before converting back, with saturation and lightness unchanged.
C24_HueNormalized ==
    colorCall.op = "shiftHue" /\ ~colorCall.threw =>
        /\ ~RLt(colorCall.hsl.h, Num(0))
        /\ RLt(colorCall.hsl.h, Num(360))
        /\ colorCall.hsl.s = rgbToHsl(hexToRgb(colorCall.hex).rgb).s
        /\ colorCall.hsl.l = rgbToHsl(hexToRgb(colorCall.hex).rgb).l

\* C25: for every RGB triple of integers in [0,255], rgbToHsl returns hue in
\* [0,360), saturation in [0,1] and lightness in [0,1]; when the three
\* channels are equal (gray, black, white) it returns hue 0 and saturation 0.
C25_HslRanges ==
    colorCall.op = "rgbToHsl" =>
        /\ ~RLt(colorCall.hsl.h, Num(0)) /\ RLt(colorCall.hsl.h, Num(360))
        /\ ~RLt(colorCall.hsl.s, Num(0)) /\ ~RLt(Num(1), colorCall.hsl.s)
        /\ ~RLt(colorCall.hsl.l, Num(0)) /\ ~RLt(Num(1), colorCall.hsl.l)
        /\ rgbArg[1] = rgbArg[2] /\ rgbArg[2] = rgbArg[3] =>
              colorCall.hsl.h = Num(0) /\ colorCall.hsl.s = Num(0)

\* A gray.
C25_Witness ==
    /\ colorCall.op = "rgbToHsl"
    /\ rgbArg = <<Num(128), Num(128), Num(128)>>
    /\ colorCall.hsl = [h |-> Num(0), s |-> Num(0), l |-> Rat(128, 255)]

(***************************************************************************)
(* generateColorScheme after validation.                                   *)
(***************************************************************************)
\* The seed passes the validation call.
PassesValidation == ~hexToRgb(Canonical(seedArg)).threw

\* The colours generateColorScheme hands to hexToRgb directly or through
\* lighten, darken and hexToRgba.
ColorsHandedToHexToRgb == {result.scheme.primary, result.scheme.cyan}

\* C26: once the seed has passed validation, no later step of
\* generateColorScheme can fail: every intermediate color handed to hexToRgb
\* (by lighten, darken and hexToRgba, including the derived cyan) is a
\* well-formed #rrggbb string, so the call always returns a complete record.
C26_NoFailureAfterValidation ==
    phase \in {"returned", "thrown", "serialized"} /\ PassesValidation =>
        /\ ~result.threw
        /\ \A color \in ColorsHandedToHexToRgb : IsHexColor(color) /\ ~hexToRgb(color).threw
        /\ DOMAIN result.scheme = DOMAIN NoScheme
        /\ \A field \in DOMAIN NoScheme : result.scheme[field] # ""
        /\ result.scheme.glowCyan = "0 0 80px " \o RgbaText(result.scheme.cyan, "0.3")

\* A seed whose cyan lies at the far end of its band and is parsed again for
\* glowCyan.
C26_Witness ==
    /\ phase = "returned"
    /\ seedArg = "#21170d"
    /\ hueRounding = "below"
    /\ ~result.threw
    /\ result.scheme.cyan = "#193148"
    /\ result.scheme.glowCyan = "0 0 80px rgba(25, 49, 72, 0.3)"

(***************************************************************************)
(* The sf-symbols integration.                                             *)
(***************************************************************************)
HasShortcode(content) == FirstMatchFrom(content, 1) # 0

\* C27: the shared global regular expression SFS_PATTERN has lastIndex 0 at the
\* start of every plugin operation (transform, transformIndexHtml, each file
\* of the build-done pass, replaceShortcodes) after any sequence of such
\* operations, so the test() guard never skips content that contains a
\* shortcode.
C27_LastIndexZero ==
    /\ plugin.lastIndex = 0
    /\ plugin.last.start = 0
    /\ \A k \in 1..Len(plugin.last.pass.starts) : plugin.last.pass.starts[k] = 0
    /\ plugin.last.op = "transformIndexHtml" /\ HasShortcode(plugin.last.content) => ~plugin.last.skipped
    /\ plugin.last.op = "transform" /\ HasShortcode(plugin.last.content) =>
          (plugin.last.skipped <=> ~IsProcessedId(plugin.last.id))
    /\ plugin.last.op \in {"transform", "transformIndexHtml", "replaceShortcodes"} =>
          plugin.last.output = IF plugin.last.skipped THEN plugin.last.content
                               ELSE ReplaceFrom(plugin.last.content, 1, plugin.map)

\* A transform that replaced two shortcodes, after another operation.
C27_Witness ==
    /\ plugin.ops = 2
    /\ plugin.last.op = "transform"
    /\ plugin.last.id = "src/pages/index.astro"
    /\ plugin.last.content = "a @sfs:house@ b @sfs:star@"
    /\ plugin.last.output = "a {U+house} b {U+star}"
    /\ plugin.lastIndex = 0

\* The files of the last pass: those with a shortcode whose name the map has,
\* and how many such shortcodes each has.
KnownShortcodes(content) == ReplacedFrom(content, 1, plugin.map)

RECURSIVE SumOfWritten(_, _)
SumOfWritten(pass, k) ==
    IF k > Len(pass.counts) THEN 0
    ELSE (IF pass.written[k] THEN pass.counts[k] ELSE 0) + SumOfWritten(pass, k + 1)

\* C28: in the build-done pass, an HTML file is rewritten if and only if at
\* least one shortcode with a known symbol name was replaced in it; files
\* without shortcodes and files containing only unknown shortcodes are left
\* untouched, and the total replacement count is the sum of the per-file
\* counts of the rewritten files.
C28_RewrittenIffReplaced ==
    plugin.last.op = "buildDone" =>
        /\ Len(plugin.dist) = Len(plugin.last.pass.dist)
        /\ \A k \in 1..Len(plugin.dist) :
              /\ plugin.last.pass.written[k] <=> KnownShortcodes(plugin.last.pass.dist[k]) > 0
              /\ plugin.last.pass.written[k] =>
                    plugin.dist[k] = ReplaceFrom(plugin.last.pass.dist[k], 1, plugin.map)
              /\ ~plugin.last.pass.written[k] => plugin.dist[k] = plugin.last.pass.dist[k]
              /\ ~HasShortcode(plugin.last.pass.dist[k]) => ~plugin.last.pass.written[k]
              /\ plugin.last.pass.written[k] => plugin.dist[k] # plugin.last.pass.dist[k]
        /\ plugin.last.pass.total = SumOfWritten(plugin.last.pass, 1)

\* A pass over a file with an unknown and a known shortcode, rewritten, and a
\* file with an unknown shortcode only, left as it was.
C28_Witness ==
    /\ plugin.last.op = "buildDone"
    /\ plugin.last.pass.dist =
          <<"<i data-sfs=\"@sfs:unknown.fake@\"></i><i data-sfs=\"@sfs:house.fill@\"></i>",
            "<i data-sfs=\"@sfs:unknown.fake@\"></i>">>
    /\ plugin.last.pass.written = <<TRUE, FALSE>>
    /\ plugin.dist[1] = "<i data-sfs=\"@sfs:unknown.fake@\"></i><i data-sfs=\"{U+house.fill}\"></i>"
    /\ plugin.last.pass.total = 1

(***************************************************************************)
(* The command-line run: what is printed and what is written.              *)
(***************************************************************************)
\* The options the run parsed, and the record it generated.
CliOptions == ParseArgs(cli.args, 1, DefaultOptions)

CliScheme == generateColorScheme(cli.primaryColor).scheme

\* The run generated the palette and no write was rejected.
CliSucceeded == Generates /\ cli.exitCode = 0

\* The lines printed after the summary.
PrintedDocument == SubSeq(cli.stdout, Len(SummaryLines(CliScheme)) + 1, Len(cli.stdout))

PrintsOneDocument ==
    CliSucceeded /\ CliOptions.outputPath = <<>> =>
        /\ cli.writes = <<>>
        /\ CliOptions.format = <<"json">> => PrintedDocument = generateJSON(CliScheme)
        /\ CliOptions.format # <<"json">> => PrintedDocument = generateCSS(CliScheme)

\* C29: in the command-line run without --output, exactly one document is
\* printed: the JSON document when the format is json, and the CSS text for
\* every other format value, so --format both prints the CSS only; with
\* --output, format both writes the CSS and the JSON to the output path with
\* its extension replaced by .css and .json respectively.
C29_PrintedOrWritten ==
    /\ PrintsOneDocument
    /\ CliSucceeded /\ CliOptions.outputPath # <<>> /\ CliOptions.format = <<"both">> =>
          /\ Len(cli.writes) = 2
          /\ endsWith(cli.writes[1].path, ".css") /\ cli.writes[1].text = generateCSS(CliScheme)
          /\ endsWith(cli.writes[2].path, ".json") /\ cli.writes[2].text = generateJSON(CliScheme)
          /\ cli.writes[1].path = ReplaceExtension(CliOptions.outputPath[1], ".css")
          /\ cli.writes[2].path = ReplaceExtension(CliOptions.outputPath[1], ".json")

\* The same for output paths that end in an extension.
WritesBothWhenExtension ==
    /\ PrintsOneDocument
    /\ CliSucceeded /\ CliOptions.outputPath # <<>> /\ CliOptions.format = <<"both">>
       /\ ExtensionStart(CliOptions.outputPath[1]) # 0 =>
          /\ Len(cli.writes) = 2
          /\ endsWith(cli.writes[1].path, ".css") /\ cli.writes[1].text = generateCSS(CliScheme)
          /\ endsWith(cli.writes[2].path, ".json") /\ cli.writes[2].text = generateJSON(CliScheme)

(***************************************************************************)
(* The font-subsetting tool.                                               *)
(***************************************************************************)
\* The run was given a project path, so it scanned and extracted.
Scanned == subset.ran /\ subset.branch # "usage"

AdminSymbols == {ADMIN_SYMBOLS[k] : k \in DOMAIN ADMIN_SYMBOLS}

NamesOf(symbols) == {symbols[k] : k \in DOMAIN symbols}

SymbolKeys == DOMAIN symbolsMap.entries

\* C17: for every name, hasSymbol(name) is true exactly when the name is a key
\* of the symbols map; getSymbol(name) returns the mapped glyph when the name
\* is known and returns the input name itself when it is unknown, including
\* the empty string.
C17_LookupByKey ==
    \A i \in 1..Len(callLog) :
        /\ callLog[i].op = "hasSymbol" => (callLog[i].flag <=> callLog[i].name \in SymbolKeys)
        /\ callLog[i].op = "getSymbol" /\ callLog[i].name \in SymbolKeys =>
              callLog[i].text = symbolsMap.entries[callLog[i].name]
        /\ callLog[i].op = "getSymbol" /\ callLog[i].name \notin SymbolKeys =>
              callLog[i].text = callLog[i].name
        /\ variant = "static" \/ symbolsFile = "valid" =>
              SymbolKeys = {"house", "gear", "star", "house.fill", "person.2.fill"}

C17_Witness ==
    /\ Len(callLog) = 3
    /\ callLog[1].op = "getSymbol" /\ callLog[1].name = "house.fill"
    /\ callLog[1].text = "{U+house.fill}"
    /\ callLog[2].op = "hasSymbol" /\ callLog[2].name = "" /\ ~callLog[2].flag
    /\ callLog[3].op = "getSymbol" /\ callLog[3].name = "" /\ callLog[3].text = ""

\* C18: the symbol lookup table is initialize-once state: it is built at most
\* once (also when loading fails and an empty map is cached), and after any
\* sequence of getSymbol, hasSymbol, getSymbolsMap and loadSymbolsMap calls
\* every call returns (or works on) the same Map instance.
C18_BuiltOnce ==
    /\ mapsBuilt <= 1
    /\ \A i, j \in 1..Len(callLog) : callLog[i].map = callLog[j].map
    /\ callLog # <<>> =>
          /\ mapsBuilt = 1
          /\ symbolsMap.id = callLog[1].map
          /\ symbolsMap.id # 0

C18_Witness ==
    /\ variant = "lazy"
    /\ symbolsFile = "missing"
    /\ Len(callLog) = 3
    /\ callLog[1].op = "loadSymbolsMap"
    /\ callLog[2].op = "getSymbol"
    /\ callLog[3].op = "loadSymbolsMap"
    /\ symbolsMap = NewMap(1, <<>>)

(***************************************************************************)
(* replaceShortcodes.                                                      *)
(***************************************************************************)
\* What a part of the content becomes when shortcodes with a key of the map
\* are replaced by their glyph and everything else is kept.
ExpectedOfPart(part, map) ==
    IF part \in ShortcodeTokens /\ SubSeq(part, 6, Len(part) - 1) \in DOMAIN map.entries
    THEN map.entries[SubSeq(part, 6, Len(part) - 1)]
    ELSE part

RECURSIVE ExpectedOfParts(_, _)
ExpectedOfParts(parts, map) ==
    IF parts = <<>> THEN ""
    ELSE ExpectedOfPart(Head(parts), map) \o ExpectedOfParts(Tail(parts), map)

\* C19: replaceShortcodes(content, map) replaces every '@sfs:name@' shortcode
\* whose name is a key of map by its glyph, leaves every shortcode with an
\* unknown name exactly as written, and leaves all text outside shortcodes
\* unchanged and in order; content without any shortcode (including the
\* empty string) is returned unchanged.
C19_KnownReplacedRestKept ==
    shortcode.called =>
        /\ shortcode.output = ExpectedOfParts(shortcode.parts, shortcode.map)
        /\ (\A k \in 1..Len(shortcode.parts) : shortcode.parts[k] \in TextTokens) =>
              shortcode.output = shortcode.content

\* The same for maps whose glyphs are all non-empty.
ShortcodesWithGlyphsReplaced ==
    shortcode.called /\ (\A name \in DOMAIN shortcode.map.entries : shortcode.map.entries[name] # "") =>
        /\ shortcode.output = ExpectedOfParts(shortcode.parts, shortcode.map)
        /\ (\A k \in 1..Len(shortcode.parts) : shortcode.parts[k] \in TextTokens) =>
              shortcode.output = shortcode.content

====
